---- MODULE Spec2Model ----
(***************************************************************************)
(* Verification model of edyn's island worker                              *)
(* (src/src/edyn/parallel/island_worker.cpp).                              *)
(*                                                                         *)
(* Spec      the scheduling protocol of one island worker: the job         *)
(*           dispatcher's pool threads running island_worker_func, the     *)
(*           atomics m_splitting / m_terminating / m_reschedule_counter,   *)
(*           and the coordinator thread calling reschedule(), split() and  *)
(*           terminate().  Every access to a shared atomic is one step.    *)
(* SpecFsm   the worker's state machine on the thread that holds the job:  *)
(*           update() statement by statement, message handlers one message *)
(*           at a time, the clock, should_step() and should_split().       *)
(* SpecSplit split() on the worker's entity graph, component by component. *)
(* SpecSync  sync() and sync_dirty() filling the island delta.             *)
(* SpecObs   the on_destroy observers and the delta's destroyed entries.   *)
(* SpecSleep going to sleep and waking up.                                 *)
(* SpecClock finish_step() and the island's timestamp.                     *)
(*                                                                         *)
(* and of the networking code of the server and the client                 *)
(* (server_side.cpp, client_side.cpp):                                     *)
(*                                                                         *)
(* SpecOwner island ownership and the import of a client's packets.        *)
(* SpecQueue a client's queue of timed packets on the server.              *)
(* SpecAabb  the packets for entities entering and leaving an AABB of      *)
(*           interest.                                                     *)
(* SpecSnap  the rate of transient snapshots.                              *)
(* SpecReq   the server answering an entity_request.                       *)
(* SpecResp  the client processing an entity_response.                     *)
(* SpecExtr  the client's transient snapshots and extrapolation jobs.      *)
(* SpecDirty the client's dirty and network_dirty markers.                 *)
(* SpecCreate the graph nodes and edges made for a create_entity packet.   *)
(* SpecDelta the worker importing an island delta twice.                   *)
(* SpecPools the order of the pools of the packets that create entities.   *)
(* SpecDelay the playout delay the server gives each client.               *)
(* SpecDestroy the server handling a client's destroy_entity packets.      *)
(* SpecEcho  the client's lists of created and destroyed entities.         *)
(* SpecPresent the presentation transforms (update_presentation.cpp).      *)
(***************************************************************************)
EXTENDS Integers, Sequences, FiniteSets, TLC

(***************************************************************************)
(* Bounds.                                                                 *)
(***************************************************************************)
NumThreads == 2     \* pool threads of the job dispatcher
MaxMsgs == 1        \* messages the coordinator posts in one run
MaxJobs == 2        \* instances of the job alive at once
FixedDt == 1        \* settings.fixed_dt, the unit of time

Threads == 1..NumThreads

VARIABLES
    \* ---- island_worker members and registry state
    m_state,               \* island_worker::m_state
    m_splitting,           \* std::atomic<bool> m_splitting
    m_terminating,         \* std::atomic<bool> m_terminating
    m_terminated,          \* std::atomic<bool> m_terminated
    m_reschedule_counter,  \* std::atomic<int> m_reschedule_counter
    paused,                \* m_registry.ctx<settings>().paused
    sleeping,              \* m_registry.any_of<sleeping_tag>(m_island_entity)
    \* ---- message queues
    inbox,                 \* coordinator -> worker, in send order
    split_requested,       \* a msg::split_island waits in the coordinator's queue
    \* ---- job dispatcher
    jobs_ready,            \* instances of m_this_job in the dispatcher's queue
    jobs_delayed,          \* instances queued by async_after, delay not yet over
    async_pending,         \* parallel broad/narrow-phase tasks that will
                           \* dispatch m_this_job when they complete
    \* ---- control
    thr,                   \* pool thread -> where it is in the job ("idle": free)
    coord,                 \* the coordinator thread: [pc, terminate_called]
    posted,                \* messages posted so far
    \* ---- observation
    assert_failed,         \* EDYN_ASSERT(reschedule_count != 0) has failed
    awaiting_split,        \* finish_step asked for a split that split() has
                           \* not yet carried out
    mid_request,           \* a message is unprocessed whose reschedule() found
                           \* the counter non-zero and no delayed job
    \* ---- time
    now,                   \* performance_time()
    island_time,           \* island_timestamp of m_island_entity
    \* ---- the state machine (SpecFsm)
    fpc,                   \* the statement of update() / split() the job is at
    entry,                 \* the case of update()'s switch that was entered
    batch,                 \* messages m_message_queue.update() is delivering
    m_step_start_time,     \* island_worker::m_step_start_time
    m_topology_changed,    \* island_worker::m_topology_changed
    m_pending_split_calculation,
    m_calculate_split_timestamp,
    single_component,      \* entity_graph::is_single_connected_component()
    first_observed,        \* when should_split() first saw the pending change
    last_handled,          \* number of the last message a handler ran for
    start_posted,          \* messages posted when the update in step started
    \* ---- the entity graph and split() (SpecSplit)
    graph_nodes,           \* entities with a graph_node
    graph_procedural,      \* those with a procedural_tag (connecting nodes)
    graph_edges,           \* edges, each the pair of nodes it joins
    components,            \* split()'s connected_components, once sorted
    split_index,           \* split()'s loop index i
    split_return,          \* what split() returned
    split_pc,              \* where split() is
    graph_before,          \* the graph split() was called on
    \* ---- the registry's components and the delta (SpecSync)
    registry,              \* entity -> [kind, continuous, dirty]
    m_delta_builder,       \* the entries the delta builder holds
    delta_sent,            \* the island_delta sync() sent
    sync_pc,               \* where sync() is
    registry_at_sync,      \* the registry when sync() was called
    \* ---- the destroy observers (SpecObs)
    edge_manifolds,        \* the edges whose entity has a contact_manifold
    m_possibly_dangling_np_nodes,
    destroy_events,        \* the on_destroy calls of the last operation
    \* ---- sleeping (SpecSleep)
    bodies,                \* entity -> its tags and velocities
    m_sleep_timestamp,     \* std::optional<double> m_sleep_timestamp
    calm_since,            \* least island time of a finish_step since the
                           \* last one at which could_go_to_sleep() failed
    \* ---- the island clock (SpecClock)
    fixed_dt,              \* m_registry.ctx<settings>().fixed_dt
    \* ---- the server's registry (SpecOwner, SpecAabb)
    entity_owner,          \* entity -> entity_owner.client_entity
    islands,               \* island -> [nodes, edges, owner]
    entity_map,            \* client -> remote entity -> local entity
    comp_value,            \* entity -> value of a non-input component
    last_import,           \* what the last packet processed has done
    valid_entities,        \* the entities registry.valid() holds of
    aabboi,                \* client -> [create_entities, destroy_entities]
    aabb_sent,             \* the packets the last server tick published
    \* ---- the server's packet queue (SpecQueue)
    packet_queue,          \* remote_client::packet_queue
    processed,             \* the packets process_packet ran for, in order
    received,              \* packets received so far
    \* ---- transient snapshots (SpecSnap)
    last_snapshot_time,    \* end -> last_snapshot_time
    last_published,        \* end -> when it last published a snapshot
    exportable,            \* end -> the pools of the packet are not empty
    \* ---- packets between the server and the client
    srv_req,               \* the server answering an entity_request (SpecReq)
    cli_map,               \* the client's registry and entity_map (SpecResp)
    cli_extr,              \* the client's extrapolation jobs (SpecExtr)
    cli_dirty,             \* dirty and network_dirty on the client (SpecDirty)
    net_graph,             \* the registry a create_entity is imported into
                           \* (SpecCreate)
    wrk_delta,             \* the worker importing an island_delta (SpecDelta)
    pkt_pools,             \* the pools of a packet about to leave (SpecPools)
    srv_delay,             \* the server's playout delays (SpecDelay)
    split_delta,           \* the delta split() builds and sends (SpecSplit)
    srv_destroy,           \* the server handling destroy_entity (SpecDestroy)
    cli_echo,              \* the client's created and destroyed lists (SpecEcho)
    present                \* the presentation transforms (SpecPresent)

flags == <<m_splitting, m_terminating, m_terminated>>
reg == <<m_state, paused, sleeping>>
queues == <<inbox, split_requested, posted>>
disp == <<jobs_ready, jobs_delayed, async_pending>>
obs == <<assert_failed, awaiting_split, mid_request>>
clock == <<now, island_time>>
splitCalc == <<m_topology_changed, m_pending_split_calculation,
               m_calculate_split_timestamp, single_component, first_observed>>
fsm == <<fpc, entry, batch, m_step_start_time, splitCalc, last_handled,
         start_posted>>

graphv == <<graph_nodes, graph_procedural, graph_edges>>
splitv == <<graphv, components, split_index, split_return, split_pc,
            graph_before>>

syncv == <<registry, m_delta_builder, delta_sent, sync_pc, registry_at_sync>>

obsreg == <<edge_manifolds, m_possibly_dangling_np_nodes, destroy_events>>

\* The members and registry state the later specifications add.
sleepv == <<bodies, m_sleep_timestamp, calm_since>>

\* The server's and the client's networking state.
ownerv == <<entity_owner, islands, entity_map, comp_value, last_import>>
aabbv == <<valid_entities, aabboi, aabb_sent>>
queuev == <<packet_queue, processed, received>>
snapv == <<last_snapshot_time, last_published, exportable>>
latev == <<srv_delay, split_delta, srv_destroy, cli_echo, present>>
clientv == <<srv_req, cli_map, cli_extr, cli_dirty, net_graph, wrk_delta,
             pkt_pools, latev>>
serverv == <<ownerv, aabbv, queuev, snapv, clientv>>

added == <<obsreg, sleepv, fixed_dt, serverv>>

\* The same without the delta of split().
addedSplit == <<obsreg, sleepv, fixed_dt, ownerv, aabbv, queuev, snapv,
                srv_req, cli_map, cli_extr, cli_dirty, net_graph, wrk_delta,
                pkt_pools, srv_delay, srv_destroy, cli_echo, present>>

\* What the scheduling protocol leaves alone.
apart == <<clock, fsm, splitv, syncv, added>>

schedVars == <<flags, reg, queues, disp, obs, m_reschedule_counter, thr, coord>>

vars == <<schedVars, apart>>

WorkerStates == {"init", "step", "begin_step", "broadphase", "broadphase_async",
                 "narrowphase", "narrowphase_async", "solve", "finish_step"}

(***************************************************************************)
(* Messages of the coordinator (edyn::msg).                                *)
(***************************************************************************)
Msg(type, flag) == [type |-> type, paused |-> flag]
Messages == {Msg("set_paused", TRUE), Msg("set_paused", FALSE),
             Msg("step_simulation", FALSE), Msg("wake_up_island", FALSE)}

(***************************************************************************)
(* Message handlers, on the part w of the worker the handlers touch:       *)
(* [m_state, paused, sleeping, island_time].                               *)
(***************************************************************************)
on_set_paused(w, msg, time) ==
    [w EXCEPT !.paused = msg.paused, !.island_time = time]

on_step_simulation_unchecked(w) == [w EXCEPT !.m_state = "begin_step"]

on_step_simulation(w) ==
    IF ~w.sleeping THEN [w EXCEPT !.m_state = "begin_step"] ELSE w

on_wake_up_island(w, time) ==
    IF ~w.sleeping THEN w
    ELSE [w EXCEPT !.island_time = time, !.sleeping = FALSE]

on_message(w, msg, time) ==
    CASE msg.type = "set_paused"      -> on_set_paused(w, msg, time)
      [] msg.type = "step_simulation" -> on_step_simulation(w)
      [] msg.type = "wake_up_island"  -> on_wake_up_island(w, time)
      [] OTHER                        -> w

\* m_message_queue.update(): every pending message, in queue order.
RECURSIVE process_messages(_, _, _)
process_messages(w, msgs, time) ==
    IF msgs = <<>> THEN w
    ELSE process_messages(on_message(w, Head(msgs), time), Tail(msgs), time)


\* The worker's graph before any entity is imported, split() not called.
NoGraph ==
    /\ graph_nodes = {}
    /\ graph_procedural = {}
    /\ graph_edges = {}
    /\ components = <<>>
    /\ split_index = 0
    /\ split_return = <<>>
    /\ split_pc = "none"
    /\ graph_before = [nodes |-> {}, edges |-> {}]

\* An island delta with no entry.
EmptyDelta ==
    [created_entities |-> {}, created |-> {}, updated |-> {}, destroyed |-> {}]

\* The registry before any entity is imported, the builder empty.
NoComponents ==
    /\ registry = <<>>
    /\ m_delta_builder = EmptyDelta
    /\ delta_sent = EmptyDelta
    /\ sync_pc = "none"
    /\ registry_at_sync = <<>>

\* No destroy observer has run.
NoDestroyEvents ==
    /\ edge_manifolds = {}
    /\ m_possibly_dangling_np_nodes = {}
    /\ destroy_events = {}

\* An empty std::optional timestamp.
NoTimestamp == -1

\* No body has been imported; m_sleep_timestamp is empty.
NoBodies ==
    /\ bodies = <<>>
    /\ m_sleep_timestamp = NoTimestamp
    /\ calm_since = NoTimestamp

\* No packet has been processed.
NoImport == [client |-> 0, kind |-> "none", applied |-> {}, owned |-> {},
             discarded |-> {}]

\* Nothing of the packet handlers has run.  RestBut(v) leaves v open.
RestBut(v) ==
    /\ v = "srv_req" \/ srv_req = <<>>
    /\ v = "cli_map" \/ cli_map = <<>>
    /\ v = "cli_extr" \/ cli_extr = <<>>
    /\ v = "cli_dirty" \/ cli_dirty = <<>>
    /\ v = "net_graph" \/ net_graph = <<>>
    /\ v = "wrk_delta" \/ wrk_delta = <<>>
    /\ v = "pkt_pools" \/ pkt_pools = <<>>
    /\ v = "srv_delay" \/ srv_delay = <<>>
    /\ v = "split_delta" \/ split_delta = <<>>
    /\ v = "srv_destroy" \/ srv_destroy = <<>>
    /\ v = "cli_echo" \/ cli_echo = <<>>
    /\ v = "present" \/ present = <<>>

NoClient == RestBut("none")

\* The server's state before any client has connected.
ServerAtRest ==
    /\ entity_owner = <<>>
    /\ islands = <<>>
    /\ entity_map = <<>>
    /\ comp_value = <<>>
    /\ last_import = NoImport
    /\ valid_entities = {}
    /\ aabboi = <<>>
    /\ aabb_sent = <<>>
    /\ packet_queue = <<>>
    /\ processed = <<>>
    /\ received = 0
    /\ last_snapshot_time = <<>>
    /\ last_published = <<>>
    /\ exportable = <<>>

\* The networking state before any client has connected.
NoServer == ServerAtRest /\ NoClient

\* The constructor's values of what the later specifications add.
OthersAtConstruction ==
    /\ NoDestroyEvents
    /\ NoBodies
    /\ fixed_dt = FixedDt
    /\ NoServer

\* The constructor's values of the members the state machine adds.
FsmAtConstruction ==
    /\ fpc = "idle"
    /\ entry = "init"
    /\ batch = <<>>
    /\ m_step_start_time = 0
    /\ m_topology_changed = FALSE
    /\ m_pending_split_calculation = FALSE
    /\ m_calculate_split_timestamp = 0
    /\ single_component = TRUE
    /\ first_observed = -1
    /\ last_handled = 0
    /\ start_posted = 0

(***************************************************************************)
(* Spec: the scheduling protocol.  Decisions that depend on the clock or   *)
(* on body data (is a step due, is the broad-phase parallelizable, may the *)
(* island sleep, has the island fallen apart) are inputs of the step that  *)
(* takes them.                                                             *)
(***************************************************************************)
W == [m_state |-> m_state, paused |-> paused, sleeping |-> sleeping,
      island_time |-> island_time]

\* What one run of the step pipeline leaves behind: the new m_state, whether
\* go_to_sleep() ran, whether should_split() held, and how update() ends.
Out(st, go_sleep, split, end) ==
    [m_state |-> st, sleeping |-> go_sleep, split |-> split, end |-> end]

\* run_solver(); finish_step(); maybe_reschedule()
solve_out(go_sleep, split) == Out("step", go_sleep, split, "maybe_reschedule")

\* if (run_narrowphase()) { run_solver(); finish_step(); maybe_reschedule(); }
narrowphase_out(par_n, go_sleep, split) ==
    IF par_n THEN Out("narrowphase_async", FALSE, FALSE, "yield")
    ELSE solve_out(go_sleep, split)

\* begin_step(); if (run_broadphase()) { if (run_narrowphase()) ... }
step_out(par_b, par_n, go_sleep, split) ==
    IF par_b THEN Out("broadphase_async", FALSE, FALSE, "yield")
    ELSE narrowphase_out(par_n, go_sleep, split)

\* should_step(), the clock's part (now - island_time >= fixed_dt) an input
should_step_in(w, dt_ok) ==
    IF w.m_state = "begin_step" THEN TRUE
    ELSE IF w.paused \/ w.sleeping THEN FALSE
    ELSE dt_ok

SetPc(t, pc) == thr' = [thr EXCEPT ![t] = pc]

\* In Spec a message is posted unread, and the step that processes the queue
\* draws its content: the coordinator chooses what it sends without looking
\* at the worker, so the two choices commute.
Unread == Msg("unread", FALSE)

RECURSIVE Contents(_)
Contents(n) ==
    IF n = 0 THEN {<<>>}
    ELSE {<<m>> \o rest : m \in Messages, rest \in Contents(n - 1)}

\* Instances of the job that are alive: queued, awaited from a parallel task,
\* or held by a pool thread.
Live ==
    jobs_ready + jobs_delayed + async_pending
    + Cardinality({t \in Threads : thr[t] # "idle"})

\* The coordinator may add one more instance of the job.  (A pool thread that
\* queues the job returns at once: it adds none.)
Room == Live < MaxJobs

\* The effect of a pipeline run o by thread t.
Apply(t, o) ==
    /\ m_state' = o.m_state
    /\ sleeping' = (sleeping \/ o.sleeping)
    /\ m_splitting' = (IF o.split THEN TRUE ELSE m_splitting)
    /\ split_requested' = (split_requested \/ o.split)
    /\ awaiting_split' = (awaiting_split \/ o.split)
    /\ async_pending' = async_pending + (IF o.end = "yield" THEN 1 ELSE 0)
    /\ SetPc(t, IF o.end = "yield" THEN "idle" ELSE o.end)
    /\ UNCHANGED <<m_terminating, m_terminated, paused, inbox, posted,
                   jobs_ready, jobs_delayed, assert_failed, mid_request,
                   m_reschedule_counter, coord, apart>>

\* A pool thread (the idle one of least index: the pool's threads are
\* interchangeable) takes the job from the dispatcher's queue and runs
\* island_worker_func up to its test of worker->is_terminating().
Dequeue(t) ==
    /\ thr[t] = "idle"
    /\ \A u \in Threads : u < t => thr[u] # "idle"
    /\ jobs_ready > 0
    /\ jobs_ready' = jobs_ready - 1
    /\ SetPc(t, IF m_terminating THEN "do_terminate" ELSE "update")
    /\ UNCHANGED <<flags, reg, queues, jobs_delayed, async_pending, obs,
                   m_reschedule_counter, coord, apart>>

\* worker->do_terminate(); delete worker;
DoTerminate(t) ==
    /\ thr[t] = "do_terminate"
    /\ m_terminated' = TRUE
    /\ SetPc(t, "idle")
    /\ UNCHANGED <<m_splitting, m_terminating, reg, queues, disp, obs,
                   m_reschedule_counter, coord, apart>>

\* update(), case state::init and case state::step: process_messages()
UpdateMessages(t) ==
    /\ thr[t] = "update"
    /\ m_state \in {"init", "step"}
    /\ \E msgs \in Contents(Len(inbox)) :
        LET w == process_messages(W, msgs, now) IN
        /\ m_state' = w.m_state
        /\ paused' = w.paused
        /\ sleeping' = w.sleeping
    /\ inbox' = <<>>
    /\ mid_request' = FALSE
    /\ SetPc(t, IF m_state = "init" THEN "init_body" ELSE "step_body")
    /\ UNCHANGED <<flags, split_requested, posted, disp, assert_failed,
                   awaiting_split, m_reschedule_counter, coord, apart>>

\* init(), after process_messages(): ... m_state = state::step
UpdateInit(t) ==
    /\ thr[t] = "init_body"
    /\ Apply(t, Out("step", FALSE, FALSE, "maybe_reschedule"))

\* case state::step, after process_messages()
UpdateStep(t) ==
    /\ thr[t] = "step_body"
    /\ \E dt_ok, par_b, par_n, go_sleep, split \in BOOLEAN :
          IF should_step_in(W, dt_ok)
          THEN Apply(t, step_out(par_b, par_n, go_sleep, split))
          ELSE Apply(t, Out(m_state, FALSE, FALSE, "maybe_reschedule"))

\* case state::begin_step: begin_step(); reschedule_now();
UpdateBeginStep(t) ==
    /\ thr[t] = "update"
    /\ m_state = "begin_step"
    /\ Apply(t, Out("broadphase", FALSE, FALSE, "reschedule_now"))

\* case state::broadphase: if (run_broadphase()) reschedule_now();
UpdateBroadphase(t) ==
    /\ thr[t] = "update"
    /\ m_state = "broadphase"
    /\ \E par_b \in BOOLEAN :
          Apply(t, IF par_b THEN Out("broadphase_async", FALSE, FALSE, "yield")
                   ELSE Out("narrowphase", FALSE, FALSE, "reschedule_now"))

\* case state::broadphase_async and case state::narrowphase
UpdateNarrowphase(t) ==
    /\ thr[t] = "update"
    /\ m_state \in {"broadphase_async", "narrowphase"}
    /\ \E par_n, go_sleep, split \in BOOLEAN :
          Apply(t, narrowphase_out(par_n, go_sleep, split))

\* case state::narrowphase_async, case state::solve, case state::finish_step
UpdateSolve(t) ==
    /\ thr[t] = "update"
    /\ m_state \in {"narrowphase_async", "solve", "finish_step"}
    /\ \E go_sleep, split \in BOOLEAN :
          Apply(t, IF m_state = "solve"
                   THEN [solve_out(go_sleep, split) EXCEPT !.end = "reschedule_now"]
                   ELSE solve_out(go_sleep, split))

\* reschedule_now(): split_deltaatcher::global().async(m_this_job)
RescheduleNow(t) ==
    /\ thr[t] = "reschedule_now"
    /\ jobs_ready' = jobs_ready + 1
    /\ SetPc(t, "idle")
    /\ UNCHANGED <<flags, reg, queues, jobs_delayed, async_pending, obs,
                   m_reschedule_counter, coord, apart>>

\* maybe_reschedule(): if (m_splitting.load()) return;
MaybeRescheduleLoad(t) ==
    /\ thr[t] = "maybe_reschedule"
    /\ SetPc(t, IF m_splitting THEN "idle" ELSE "mr_exchange")
    /\ UNCHANGED <<flags, reg, queues, disp, obs, m_reschedule_counter, coord,
                   apart>>

\* A maybe_reschedule() that treats every count alike: a paused or sleeping
\* worker never reschedules, and an active one only through the time gate.
after_exchange_gated(reschedule_count, is_paused, is_sleeping) ==
    IF ~is_paused /\ ~is_sleeping THEN "reschedule_later" ELSE "idle"

\* maybe_reschedule(): what follows the exchange.  A count of one is the
\* worker's own request: reschedule_later() unless paused or sleeping.  Any
\* other count includes external requests: reschedule().
after_exchange(reschedule_count, is_paused, is_sleeping) ==
    IF reschedule_count = 1
    THEN (IF ~is_paused /\ ~is_sleeping THEN "reschedule_later" ELSE "idle")
    ELSE "reschedule"

\* maybe_reschedule(): reads sleeping and paused from the registry, then
\* m_reschedule_counter.exchange(0) and the branch on what it returned.
MaybeRescheduleExchange(t) ==
    /\ thr[t] = "mr_exchange"
    /\ m_reschedule_counter' = 0
    /\ assert_failed' = (assert_failed \/ m_reschedule_counter = 0)
    /\ SetPc(t, after_exchange(m_reschedule_counter, paused, sleeping))
    /\ UNCHANGED <<flags, reg, queues, disp, awaiting_split, mid_request,
                   coord, apart>>

\* reschedule_later(): fetch_add(1); if (reschedule_count > 0) return;
\* then async_after(delta_time) if delta_time > 0, else async.
RescheduleLater(t) ==
    /\ thr[t] = "reschedule_later"
    /\ m_reschedule_counter' = m_reschedule_counter + 1
    /\ \E delta_time_positive \in BOOLEAN :
          IF m_reschedule_counter > 0
          THEN UNCHANGED <<jobs_ready, jobs_delayed>>
          ELSE IF delta_time_positive
          THEN jobs_delayed' = jobs_delayed + 1 /\ UNCHANGED jobs_ready
          ELSE jobs_ready' = jobs_ready + 1 /\ UNCHANGED jobs_delayed
    /\ SetPc(t, "idle")
    /\ UNCHANGED <<flags, reg, queues, async_pending, obs, coord, apart>>

\* reschedule() called by maybe_reschedule(): if (m_splitting.load()) return;
RescheduleLoad(t) ==
    /\ thr[t] = "reschedule"
    /\ SetPc(t, IF m_splitting THEN "idle" ELSE "rs_add")
    /\ UNCHANGED <<flags, reg, queues, disp, obs, m_reschedule_counter, coord,
                   apart>>

\* reschedule(): fetch_add(1); if (reschedule_count > 0) return; async(job)
RescheduleAdd(t) ==
    /\ thr[t] = "rs_add"
    /\ m_reschedule_counter' = m_reschedule_counter + 1
    /\ jobs_ready' = jobs_ready + (IF m_reschedule_counter > 0 THEN 0 ELSE 1)
    /\ SetPc(t, "idle")
    /\ UNCHANGED <<flags, reg, queues, jobs_delayed, async_pending, obs,
                   coord, apart>>

\* The delay of an async_after() is over.
DelayOver ==
    /\ jobs_delayed > 0
    /\ jobs_delayed' = jobs_delayed - 1
    /\ jobs_ready' = jobs_ready + 1
    /\ UNCHANGED <<flags, reg, queues, async_pending, obs,
                   m_reschedule_counter, thr, coord, apart>>

\* update_async(m_this_job): the parallel task completes and dispatches the job.
AsyncDone ==
    /\ async_pending > 0
    /\ async_pending' = async_pending - 1
    /\ jobs_ready' = jobs_ready + 1
    /\ UNCHANGED <<flags, reg, queues, jobs_delayed, obs,
                   m_reschedule_counter, thr, coord, apart>>

(***************************************************************************)
(* The coordinator thread.  It posts a message and then calls              *)
(* reschedule(); it calls split() when it finds a msg::split_island in its *)
(* queue; it calls terminate() once and makes no call on the worker        *)
(* after that.                                                             *)
(***************************************************************************)
CoordPc(pc) == coord' = [coord EXCEPT !.pc = pc]

CoordSend ==
    /\ coord.pc = "idle"
    /\ ~coord.terminate_called
    /\ posted < MaxMsgs
    /\ inbox' = Append(inbox, Unread)
    /\ posted' = posted + 1
    /\ CoordPc("rs_load")
    /\ UNCHANGED <<flags, reg, split_requested, disp, obs,
                   m_reschedule_counter, thr, apart>>

\* reschedule(): if (m_splitting.load()) return;
CoordRescheduleLoad ==
    /\ coord.pc = "rs_load"
    /\ CoordPc(IF m_splitting THEN "idle" ELSE "rs_add")
    /\ UNCHANGED <<flags, reg, queues, disp, obs, m_reschedule_counter, thr,
                   apart>>

\* reschedule(): fetch_add(1); if (reschedule_count > 0) return; async(job)
CoordRescheduleAdd ==
    /\ coord.pc = "rs_add"
    /\ m_reschedule_counter = 0 => Room
    /\ m_reschedule_counter' = m_reschedule_counter + 1
    /\ jobs_ready' = jobs_ready + (IF m_reschedule_counter > 0 THEN 0 ELSE 1)
    /\ mid_request' = (mid_request \/ (/\ m_reschedule_counter > 0
                                        /\ jobs_delayed = 0
                                        /\ inbox # <<>>
                                        /\ ~coord.terminate_called))
    /\ CoordPc("idle")
    /\ UNCHANGED <<flags, reg, queues, jobs_delayed, async_pending,
                   assert_failed, awaiting_split, thr, apart>>

\* The coordinator reads msg::split_island and calls split().
CoordSplit ==
    /\ coord.pc = "idle"
    /\ ~coord.terminate_called
    /\ split_requested
    /\ split_requested' = FALSE
    /\ CoordPc("split")
    /\ UNCHANGED <<flags, reg, inbox, posted, disp, obs,
                   m_reschedule_counter, thr, apart>>

\* split(): process_messages(); the connected components, the destruction
\* of the departing entities, the delta; m_splitting.store(false)
CoordSplitRun ==
    /\ coord.pc = "split"
    /\ \E msgs \in Contents(Len(inbox)) :
        LET w == process_messages(W, msgs, now) IN
        /\ m_state' = w.m_state
        /\ paused' = w.paused
        /\ sleeping' = w.sleeping
    /\ inbox' = <<>>
    /\ m_splitting' = FALSE
    /\ awaiting_split' = FALSE
    /\ mid_request' = FALSE
    /\ CoordPc("split_now")
    /\ UNCHANGED <<m_terminating, m_terminated, split_requested, posted, disp,
                   assert_failed, m_reschedule_counter, thr, apart>>

\* split(): reschedule_now()
CoordSplitNow ==
    /\ coord.pc = "split_now"
    /\ Room
    /\ jobs_ready' = jobs_ready + 1
    /\ CoordPc("idle")
    /\ UNCHANGED <<flags, reg, queues, jobs_delayed, async_pending, obs,
                   m_reschedule_counter, thr, apart>>

\* terminate(): m_splitting.store(false)
CoordTerminate ==
    /\ coord.pc = "idle"
    /\ ~coord.terminate_called
    /\ m_splitting' = FALSE
    /\ coord' = [pc |-> "term_flag", terminate_called |-> TRUE]
    /\ UNCHANGED <<m_terminating, m_terminated, reg, queues, disp, obs,
                   m_reschedule_counter, thr, apart>>

\* terminate(): m_terminating.store(true); reschedule();
CoordTerminateFlag ==
    /\ coord.pc = "term_flag"
    /\ m_terminating' = TRUE
    /\ CoordPc("rs_load")
    /\ UNCHANGED <<m_splitting, m_terminated, reg, queues, disp, obs,
                   m_reschedule_counter, thr, apart>>

\* The worker as constructed, with the delta of its first entities in its
\* queue and the coordinator about to start it with reschedule().
Init ==
    /\ m_state = "init"
    /\ m_splitting = FALSE
    /\ m_terminating = FALSE
    /\ m_terminated = FALSE
    /\ m_reschedule_counter = 0
    /\ paused \in BOOLEAN
    /\ sleeping = FALSE
    /\ inbox = <<Unread>>
    /\ split_requested = FALSE
    /\ jobs_ready = 0
    /\ jobs_delayed = 0
    /\ async_pending = 0
    /\ thr = [t \in Threads |-> "idle"]
    /\ coord = [pc |-> "rs_load", terminate_called |-> FALSE]
    /\ posted = 0
    /\ assert_failed = FALSE
    /\ awaiting_split = FALSE
    /\ mid_request = FALSE
    /\ FsmAtConstruction
    /\ OthersAtConstruction
    /\ NoGraph
    /\ NoComponents
    /\ now = 0
    /\ island_time = 0

WorkerThread(t) ==
    \/ Dequeue(t)
    \/ DoTerminate(t)
    \/ UpdateMessages(t)
    \/ UpdateInit(t)
    \/ UpdateStep(t)
    \/ UpdateBeginStep(t)
    \/ UpdateBroadphase(t)
    \/ UpdateNarrowphase(t)
    \/ UpdateSolve(t)
    \/ RescheduleNow(t)
    \/ MaybeRescheduleLoad(t)
    \/ MaybeRescheduleExchange(t)
    \/ RescheduleLater(t)
    \/ RescheduleLoad(t)
    \/ RescheduleAdd(t)

Coordinator ==
    \/ CoordSend
    \/ CoordRescheduleLoad
    \/ CoordRescheduleAdd
    \/ CoordSplit
    \/ CoordSplitRun
    \/ CoordSplitNow
    \/ CoordTerminate
    \/ CoordTerminateFlag

Next ==
    \/ \E t \in Threads : WorkerThread(t)
    \/ Coordinator
    \/ DelayOver
    \/ AsyncDone

Spec == Init /\ [][Next]_vars

(***************************************************************************)
(* Observations on Spec.                                                   *)
(***************************************************************************)
\* Thread t is inside the job, up to the point the code calls "the update is
\* done" (the exchange of the counter) or to its return.
Executing(t) ==
    thr[t] \in {"do_terminate", "update", "init_body", "step_body",
                "reschedule_now", "maybe_reschedule", "mr_exchange"}

\* Thread t is reading or writing the worker's registry.
InRegistry(t) == thr[t] \in {"update", "init_body", "step_body", "mr_exchange"}

\* The coordinator is inside split()'s work on the worker's registry.
CoordInRegistry == coord.pc = "split"

\* Instances of the worker's job that are queued or executing.
Instances ==
    jobs_ready + jobs_delayed + async_pending
    + Cardinality({t \in Threads : Executing(t)})


(***************************************************************************)
(* C1.  Under every interleaving of the worker's own maybe_reschedule /    *)
(* reschedule_later / reschedule_now with the coordinator's reschedule(),  *)
(* split() and terminate(), at most one instance of the worker's job is    *)
(* queued or executing, so update() never runs on two threads at once.     *)
(* (An instance counts as executing until it has exchanged the counter,    *)
(* the point the code itself calls the end of the update, or has           *)
(* returned.)                                                              *)
(***************************************************************************)
C1_AtMostOneInstance == Instances <= 1


(***************************************************************************)
(* C2.  After finish_step has set the splitting flag and sent              *)
(* split_island, the worker's own threads make no further registry access  *)
(* and enqueue no job until split() has run, and split() never overlaps a  *)
(* registry access by a worker thread.  (A terminate() that cancels the    *)
(* split is set aside: the statement is read for a worker that is not      *)
(* being shut down.)                                                       *)
(***************************************************************************)
C2_SplitExcludesWorker ==
    /\ (awaiting_split /\ ~coord.terminate_called) =>
           /\ \A t \in Threads : ~InRegistry(t)
           /\ jobs_ready + jobs_delayed = 0
    /\ ~(CoordInRegistry /\ \E t \in Threads : InRegistry(t))

\* Nothing of the worker is queued, running or waiting on a parallel task,
\* and the coordinator is between calls.
AtRest == Live = 0 /\ coord.pc = "idle"

(***************************************************************************)
(* C3.  After terminate() on a worker in any state, the job is eventually  *)
(* dequeued, sees the terminating flag, runs do_terminate(), and join()    *)
(* returns.  Stated over finite runs: once terminate() has returned the    *)
(* coordinator makes no further call, so a state at rest is final, and     *)
(* join() returns only if m_terminated is set there.                       *)
(***************************************************************************)
C3_TerminateReachesJoin ==
    (coord.terminate_called /\ AtRest) => m_terminated

\* The coordinator's reschedule() is completing its fetch_add.
ExternalRescheduleStep ==
    /\ coord.pc = "rs_add"
    /\ coord'.pc = "idle"
    /\ ~coord.terminate_called

\* No instance of the job is on a thread, in the ready queue or waiting on
\* a parallel task, and no split is awaited: the worker is paused, sleeping,
\* not yet started, or waiting out the delay of reschedule_later().
WorkerIdle ==
    /\ \A t \in Threads : thr[t] = "idle"
    /\ jobs_ready = 0
    /\ async_pending = 0
    /\ ~m_splitting

\* A posted message whose reschedule() has returned is never left behind:
\* the worker does not come to rest with it unprocessed.
NeverLost ==
    (AtRest /\ ~split_requested /\ ~coord.terminate_called) => inbox = <<>>

\* A request that arrived during an update leaves, once no thread holds the
\* job, an instance in the ready queue.
RerunsAtOnce ==
    (/\ mid_request
     /\ WorkerIdle
     /\ ~coord.terminate_called
     /\ coord.pc \notin {"split", "split_now"}) => jobs_ready >= 1

\* The maybe_reschedule() that exchanges a count above one goes on to
\* reschedule(), whatever paused and sleeping are.
ExchangeAboveOne ==
    \A t \in Threads :
        (thr[t] = "mr_exchange" /\ thr'[t] # thr[t] /\ m_reschedule_counter > 1)
            => thr'[t] = "reschedule"

SplitDelay == 3         \* m_calculate_split_delay(0.6)
MaxLaggingSteps == 10   \* max_lagging_steps
MaxTime == 5            \* the clock stops here
MaxPosted == 2          \* messages the coordinator posts in one run
MaxInbox == 2           \* messages waiting in the queue at once

\* What importing an island_delta, or a broad-phase update, does to the
\* graph: "parted" creates nodes or destroys edges and leaves more than one
\* component, "changed" does so and leaves one, "joined" only inserts edges,
\* "none" touches no node or edge.
GraphEffects == {"none", "parted", "changed", "joined"}

FsmMsg(type, flag, graph) == [type |-> type, paused |-> flag, graph |-> graph]

FsmMessages ==
    {FsmMsg("set_paused", TRUE, "none"), FsmMsg("set_paused", FALSE, "none"),
     FsmMsg("step_simulation", FALSE, "none"),
     FsmMsg("wake_up_island", FALSE, "none")}
    \cup {FsmMsg("island_delta", FALSE, g) : g \in GraphEffects \ {"none"}}

\* on_construct_graph_node / on_destroy_graph_edge: m_topology_changed = true.
topology_after(changed, graph) == changed \/ graph \in {"parted", "changed"}

\* The graph's connectivity after nodes or edges came or went.
connectivity_after(single, graph) ==
    CASE graph = "parted" -> FALSE
      [] graph \in {"changed", "joined"} -> TRUE
      [] OTHER -> single

\* An update() whose step case evaluates should_step() first.
update_case_unordered(st) ==
    CASE st = "init" -> "init"
      [] st = "step" -> "should_step"
      [] st = "begin_step" -> "begin_step"
      [] st = "solve" -> "run_solver"
      [] st = "broadphase" -> "run_broadphase"
      [] st = "broadphase_async" -> "finish_broadphase"
      [] st = "narrowphase" -> "run_narrowphase"
      [] st = "narrowphase_async" -> "finish_narrowphase"
      [] OTHER -> "finish_step"

\* update(): the first statement of each case of the switch.
update_case(st) ==
    CASE st = "init" -> "init"
      [] st = "step" -> "step"
      [] st = "begin_step" -> "begin_step"
      [] st = "solve" -> "run_solver"
      [] st = "broadphase" -> "run_broadphase"
      [] st = "broadphase_async" -> "finish_broadphase"
      [] st = "narrowphase" -> "run_narrowphase"
      [] st = "narrowphase_async" -> "finish_narrowphase"
      [] OTHER -> "finish_step"

\* The message queue: send() appends, update() delivers what is pending,
\* oldest first.
queue_push(q, msg) == Append(q, msg)
queue_front(q) == Head(q)
queue_pop(q) == Tail(q)

\* The job is dispatched and update() switches on m_state.  init() and the
\* step case start with process_messages(): m_message_queue.update() takes
\* what is pending.
FsmUpdate ==
    /\ fpc = "idle"
    /\ ~m_splitting
    /\ entry' = m_state
    /\ fpc' = update_case(m_state)
    /\ IF m_state \in {"init", "step"}
       THEN /\ batch' = inbox
            /\ inbox' = <<>>
            /\ start_posted' = posted
       ELSE UNCHANGED <<batch, inbox, start_posted>>
    /\ UNCHANGED <<flags, reg, split_requested, posted, disp, obs,
                   m_reschedule_counter, thr, coord, clock, m_step_start_time,
                   splitCalc, last_handled,
                   splitv, syncv, added>>

\* m_message_queue.update() delivers the next message to its handler.
FsmOnMessage ==
    /\ fpc \in {"init", "step", "split"}
    /\ batch # <<>>
    /\ LET msg == queue_front(batch)
           w == on_message(W, msg, now)
       IN /\ m_state' = w.m_state
          /\ paused' = w.paused
          /\ sleeping' = w.sleeping
          /\ island_time' = w.island_time
          /\ m_topology_changed' = topology_after(m_topology_changed, msg.graph)
          /\ single_component' = connectivity_after(single_component, msg.graph)
          /\ last_handled' = msg.id
    /\ batch' = queue_pop(batch)
    /\ UNCHANGED <<flags, queues, disp, obs, m_reschedule_counter, thr, coord,
                   now, fpc, entry, m_step_start_time,
                   m_pending_split_calculation, m_calculate_split_timestamp,
                   first_observed, start_posted,
                   splitv, syncv, added>>

\* init(), after process_messages(): m_state = state::step; then
\* maybe_reschedule().
FsmInit ==
    /\ fpc = "init"
    /\ batch = <<>>
    /\ m_state' = "step"
    /\ fpc' = "idle"
    /\ UNCHANGED <<flags, paused, sleeping, queues, disp, obs,
                   m_reschedule_counter, thr, coord, clock, entry, batch,
                   m_step_start_time, splitCalc, last_handled, start_posted,
                   splitv, syncv, added>>

\* should_step(), reading the clock.
should_step(w, time) == should_step_in(w, ~(time - w.island_time < FixedDt))

\* The step case of update(), after process_messages(): should_step(), and
\* maybe_reschedule() when it is false.
FsmShouldStep ==
    /\ \/ fpc = "step" /\ batch = <<>>
       \/ fpc = "should_step"
    /\ IF should_step(W, now)
       THEN /\ m_step_start_time' = now
            /\ m_state' = "begin_step"
            /\ fpc' = "begin_step"
       ELSE /\ fpc' = "idle"
            /\ UNCHANGED <<m_step_start_time, m_state>>
    /\ UNCHANGED <<flags, paused, sleeping, queues, disp, obs,
                   m_reschedule_counter, thr, coord, clock, entry, batch,
                   splitCalc, last_handled, start_posted,
                   splitv, syncv, added>>

\* begin_step(): m_state = state::broadphase.  The begin_step case of
\* update() then calls reschedule_now(); the step case goes on.
FsmBeginStep ==
    /\ fpc = "begin_step"
    /\ m_state' = "broadphase"
    /\ fpc' = IF entry = "begin_step" THEN "idle" ELSE "run_broadphase"
    /\ UNCHANGED <<flags, paused, sleeping, queues, disp, obs,
                   m_reschedule_counter, thr, coord, clock, entry, batch,
                   m_step_start_time, splitCalc, last_handled, start_posted,
                   splitv, syncv, added>>

\* run_broadphase(): parallelizable() -> broadphase_async and the job
\* returns; otherwise bphase.update(), which creates and destroys contact
\* manifolds and with them graph edges, and m_state = state::narrowphase.
\* The broadphase case of update() then calls reschedule_now().
FsmRunBroadphase ==
    /\ fpc = "run_broadphase"
    /\ \E parallelizable \in BOOLEAN, graph \in GraphEffects :
          IF parallelizable
          THEN /\ m_state' = "broadphase_async"
               /\ fpc' = "idle"
               /\ UNCHANGED <<m_topology_changed, single_component>>
          ELSE /\ m_state' = "narrowphase"
               /\ fpc' = IF entry = "broadphase" THEN "idle"
                                                 ELSE "run_narrowphase"
               /\ m_topology_changed' = topology_after(m_topology_changed, graph)
               /\ single_component' = connectivity_after(single_component, graph)
    /\ UNCHANGED <<flags, paused, sleeping, queues, disp, obs,
                   m_reschedule_counter, thr, coord, clock, entry, batch,
                   m_step_start_time, m_pending_split_calculation,
                   m_calculate_split_timestamp, first_observed, last_handled,
                   start_posted,
                   splitv, syncv, added>>

\* finish_broadphase(): bphase.finish_async_update();
\* m_state = state::narrowphase.
FsmFinishBroadphase ==
    /\ fpc = "finish_broadphase"
    /\ m_state' = "narrowphase"
    /\ fpc' = "run_narrowphase"
    /\ \E graph \in GraphEffects :
          /\ m_topology_changed' = topology_after(m_topology_changed, graph)
          /\ single_component' = connectivity_after(single_component, graph)
    /\ UNCHANGED <<flags, paused, sleeping, queues, disp, obs,
                   m_reschedule_counter, thr, coord, clock, entry, batch,
                   m_step_start_time, m_pending_split_calculation,
                   m_calculate_split_timestamp, first_observed, last_handled,
                   start_posted,
                   splitv, syncv, added>>

\* run_narrowphase(): parallelizable() -> narrowphase_async and the job
\* returns; otherwise nphase.update() and m_state = state::solve.
FsmRunNarrowphase ==
    /\ fpc = "run_narrowphase"
    /\ \E parallelizable \in BOOLEAN :
          IF parallelizable
          THEN m_state' = "narrowphase_async" /\ fpc' = "idle"
          ELSE m_state' = "solve" /\ fpc' = "run_solver"
    /\ UNCHANGED <<flags, paused, sleeping, queues, disp, obs,
                   m_reschedule_counter, thr, coord, clock, entry, batch,
                   m_step_start_time, splitCalc, last_handled, start_posted,
                   splitv, syncv, added>>

\* finish_narrowphase(): m_state = state::solve.
FsmFinishNarrowphase ==
    /\ fpc = "finish_narrowphase"
    /\ m_state' = "solve"
    /\ fpc' = "run_solver"
    /\ UNCHANGED <<flags, paused, sleeping, queues, disp, obs,
                   m_reschedule_counter, thr, coord, clock, entry, batch,
                   m_step_start_time, splitCalc, last_handled, start_posted,
                   splitv, syncv, added>>

\* run_solver(): m_state = state::finish_step.
FsmRunSolver ==
    /\ fpc = "run_solver"
    /\ m_state' = "finish_step"
    /\ fpc' = "finish_step"
    /\ UNCHANGED <<flags, paused, sleeping, queues, disp, obs,
                   m_reschedule_counter, thr, coord, clock, entry, batch,
                   m_step_start_time, splitCalc, last_handled, start_posted,
                   splitv, syncv, added>>

\* finish_step(): the island's timestamp advances one fixed_dt, or jumps to
\* max_lagging_steps behind the step's start when it lags further.
finish_time(isle_time, step_start_time) ==
    LET dt == step_start_time - isle_time
        num_steps == dt \div FixedDt
    IN  IF num_steps > MaxLaggingSteps
        THEN step_start_time
                 - ((dt - num_steps * FixedDt) + MaxLaggingSteps * FixedDt)
        ELSE isle_time + FixedDt

\* A should_split() that lets the delay count from the latest call instead
\* of the first.
should_split_restamped(changed, pending, stamp, single, time) ==
    IF ~changed
    THEN [result |-> FALSE, changed |-> changed, pending |-> pending,
          stamp |-> stamp]
    ELSE IF pending /\ time - stamp > SplitDelay
    THEN [result |-> ~single, changed |-> FALSE, pending |-> FALSE,
          stamp |-> stamp]
    ELSE [result |-> FALSE, changed |-> changed, pending |-> TRUE,
          stamp |-> time]

\* should_split(): what it returns and what it leaves in the three members.
should_split(changed, pending, stamp, single, time) ==
    IF ~changed
    THEN [result |-> FALSE, changed |-> changed, pending |-> pending,
          stamp |-> stamp]
    ELSE IF pending
    THEN IF time - stamp > SplitDelay
         THEN [result |-> ~single, changed |-> FALSE, pending |-> FALSE,
               stamp |-> stamp]
         ELSE [result |-> FALSE, changed |-> changed, pending |-> pending,
               stamp |-> stamp]
    ELSE [result |-> FALSE, changed |-> changed, pending |-> TRUE,
          stamp |-> time]

\* When should_split() first saw the topology change that is pending, kept
\* apart from the members should_split() uses: set by the first call that
\* finds a change, cleared by the call that finds the delay elapsed.
observed_after(changed, observed, time) ==
    IF ~changed THEN observed
    ELSE IF observed = -1 THEN time
    ELSE IF time - observed > SplitDelay THEN -1
    ELSE observed

\* finish_step(): island time, maybe_go_to_sleep(), sync(),
\* m_state = state::step, then should_split() and, when true, the splitting
\* flag and msg::split_island.  maybe_reschedule() follows in update().
FsmFinishStep ==
    /\ fpc = "finish_step"
    /\ island_time' = finish_time(island_time, m_step_start_time)
    /\ \E go_sleep \in BOOLEAN : sleeping' = (sleeping \/ go_sleep)
    /\ m_state' = "step"
    /\ LET s == should_split(m_topology_changed, m_pending_split_calculation,
                             m_calculate_split_timestamp, single_component, now)
       IN /\ m_topology_changed' = s.changed
          /\ m_pending_split_calculation' = s.pending
          /\ m_calculate_split_timestamp' = s.stamp
          /\ m_splitting' = s.result
          /\ split_requested' = s.result
    /\ first_observed' = observed_after(m_topology_changed, first_observed, now)
    /\ fpc' = "idle"
    /\ UNCHANGED <<m_terminating, m_terminated, paused, inbox, posted, disp,
                   obs, m_reschedule_counter, thr, coord, now, entry, batch,
                   m_step_start_time, single_component, last_handled,
                   start_posted,
                   splitv, syncv, added>>

\* The coordinator receives msg::split_island and calls split(), which
\* starts with process_messages().
FsmSplit ==
    /\ fpc = "idle"
    /\ m_splitting
    /\ fpc' = "split"
    /\ batch' = inbox
    /\ inbox' = <<>>
    /\ split_requested' = FALSE
    /\ UNCHANGED <<flags, reg, posted, disp, obs, m_reschedule_counter, thr,
                   coord, clock, entry, m_step_start_time, splitCalc,
                   last_handled, start_posted,
                   splitv, syncv, added>>

\* split(), after process_messages(): with one component nothing moves;
\* otherwise the smaller components are destroyed here, and destroying their
\* edges sets m_topology_changed.  Then m_splitting.store(false) and
\* reschedule_now().
FsmSplitEnd ==
    /\ fpc = "split"
    /\ batch = <<>>
    /\ IF single_component
       THEN UNCHANGED <<m_topology_changed, single_component>>
       ELSE /\ single_component' = TRUE
            /\ \E edges_destroyed \in BOOLEAN :
                  m_topology_changed' = (m_topology_changed \/ edges_destroyed)
    /\ m_splitting' = FALSE
    /\ fpc' = "idle"
    /\ UNCHANGED <<m_terminating, m_terminated, reg, queues, disp, obs,
                   m_reschedule_counter, thr, coord, clock, entry, batch,
                   m_step_start_time, m_pending_split_calculation,
                   m_calculate_split_timestamp, first_observed, last_handled,
                   start_posted,
                   splitv, syncv, added>>

\* performance_time() advances.
FsmTick ==
    /\ now < MaxTime
    /\ now' = now + 1
    /\ UNCHANGED <<schedVars, island_time, fsm, splitv, syncv, added>>

Numbered(msg, n) ==
    [type |-> msg.type, paused |-> msg.paused, graph |-> msg.graph, id |-> n]

\* The coordinator posts a message to the worker.
FsmSend ==
    /\ posted < MaxPosted
    /\ Len(inbox) < MaxInbox
    /\ \E msg \in FsmMessages : inbox' = queue_push(inbox, Numbered(msg, posted + 1))
    /\ posted' = posted + 1
    /\ UNCHANGED <<flags, reg, split_requested, disp, obs,
                   m_reschedule_counter, thr, coord, clock, fsm,
                   splitv, syncv, added>>

\* The worker as constructed: m_state(state::init), no message read yet.
InitFsm ==
    /\ m_state = "init"
    /\ m_splitting = FALSE
    /\ m_terminating = FALSE
    /\ m_terminated = FALSE
    /\ m_reschedule_counter = 0
    /\ paused \in BOOLEAN
    /\ sleeping = FALSE
    /\ inbox = <<>>
    /\ split_requested = FALSE
    /\ jobs_ready = 0
    /\ jobs_delayed = 0
    /\ async_pending = 0
    /\ thr = [t \in Threads |-> "idle"]
    /\ coord = [pc |-> "idle", terminate_called |-> FALSE]
    /\ posted = 0
    /\ assert_failed = FALSE
    /\ awaiting_split = FALSE
    /\ mid_request = FALSE
    /\ FsmAtConstruction
    /\ OthersAtConstruction
    /\ NoGraph
    /\ NoComponents
    /\ now = 0
    /\ island_time = 0

NextFsm ==
    \/ FsmUpdate
    \/ FsmOnMessage
    \/ FsmInit
    \/ FsmShouldStep
    \/ FsmBeginStep
    \/ FsmRunBroadphase
    \/ FsmFinishBroadphase
    \/ FsmRunNarrowphase
    \/ FsmFinishNarrowphase
    \/ FsmRunSolver
    \/ FsmFinishStep
    \/ FsmSplit
    \/ FsmSplitEnd
    \/ FsmTick
    \/ FsmSend

SpecFsm == InitFsm /\ [][NextFsm]_vars

\* The transitions of the chain.
Chain ==
    {<<"init", "step">>, <<"step", "begin_step">>,
     <<"begin_step", "broadphase">>, <<"broadphase", "broadphase_async">>,
     <<"broadphase", "narrowphase">>, <<"broadphase_async", "narrowphase">>,
     <<"narrowphase", "narrowphase_async">>, <<"narrowphase", "solve">>,
     <<"narrowphase_async", "solve">>, <<"solve", "finish_step">>,
     <<"finish_step", "step">>}

(***************************************************************************)
(* C5.  Every change of m_state follows the chain init -> step ->          *)
(* begin_step -> broadphase -> (broadphase_async ->) narrowphase ->        *)
(* (narrowphase_async ->) solve -> finish_step -> step; no other           *)
(* transition occurs in update(), in message processing or in split().     *)
(***************************************************************************)
C5_TransitionsFollowChain ==
    [][ m_state' # m_state => <<m_state, m_state'>> \in Chain ]_vars

\* The worker leaves step for begin_step.
LeavesStep == m_state = "step" /\ m_state' = "begin_step"

\* A message handler is about to run.
Delivering == fpc \in {"init", "step", "split"} /\ batch # <<>>

(***************************************************************************)
(* C6 as stated.  The worker leaves step for begin_step only when, at that *)
(* moment, paused is false, the island has no sleeping_tag and             *)
(* now - island_time >= fixed_dt.                                          *)
(***************************************************************************)
C6_Original ==
    [][ LeavesStep =>
            ~paused /\ ~sleeping /\ now - island_time >= FixedDt ]_vars

(***************************************************************************)
(* C6 amended.  The worker leaves step for begin_step only in should_step()*)
(* when, at that moment, paused is false, the island has no sleeping_tag   *)
(* and now - island_time >= fixed_dt, or when a step_simulation message is *)
(* handled while the island has no sleeping_tag, whatever paused and the   *)
(* island's timestamp are.                                                 *)
(***************************************************************************)
C6_Amended ==
    [][ LeavesStep =>
            /\ ~sleeping
            /\ IF Delivering
               THEN queue_front(batch).type = "step_simulation"
               ELSE ~paused /\ now - island_time >= FixedDt ]_vars

\* A paused worker's update in step has handled a step_simulation and is in
\* begin_step before should_step() runs.
C6_Witness ==
    /\ fpc = "step"
    /\ entry = "step"
    /\ m_state = "begin_step"
    /\ paused
    /\ now - island_time < FixedDt

\* update() entered in state step has reached should_step(), or is past it.
AtOrPastShouldStep ==
    /\ entry = "step"
    /\ \/ fpc = "step" /\ batch = <<>>
       \/ fpc \in {"should_step", "begin_step", "run_broadphase",
                   "run_narrowphase", "run_solver", "finish_step"}

(***************************************************************************)
(* C7.  In every update() taken in state step, the messages pending when   *)
(* it started are all handled, in the order the coordinator sent them,     *)
(* before should_step() is evaluated; no step begins in that update while  *)
(* one of them is unhandled.                                               *)
(***************************************************************************)
C7_MessagesBeforeShouldStep ==
    /\ [](AtOrPastShouldStep => last_handled >= start_posted)
    /\ [][ last_handled' # last_handled
               => last_handled' = last_handled + 1 ]_vars

\* An update in step has handled both messages posted before it started, the
\* later a step_simulation, and stands before should_step().
C7_Witness ==
    /\ fpc = "step"
    /\ entry = "step"
    /\ batch = <<>>
    /\ m_state = "begin_step"
    /\ start_posted = 2
    /\ last_handled = 2

(***************************************************************************)
(* C8.  finish_step sends split_island if and only if the topology has     *)
(* changed since the last evaluation, more than the split delay (0.6 s)    *)
(* has passed since should_split() first observed that change, and the     *)
(* graph is not a single connected component.                              *)
(***************************************************************************)
C8_SplitIff ==
    [][ (fpc = "finish_step" /\ fpc' = "idle") =>
            (split_requested' <=>
                 /\ m_topology_changed
                 /\ first_observed # -1
                 /\ now - first_observed > SplitDelay
                 /\ ~single_component) ]_vars

\* finish_step has just sent split_island, the delay having run out since
\* the change was first observed.
C8_Witness ==
    /\ split_requested
    /\ m_splitting
    /\ fpc = "idle"
    /\ m_state = "step"
    /\ ~single_component
    /\ ~m_topology_changed
    /\ now - m_calculate_split_timestamp > SplitDelay

(***************************************************************************)
(* SpecSplit: split() on the entity graph.  The graph is the one split()   *)
(* finds after its process_messages(), which may have inserted or          *)
(* destroyed any node or edge; it is drawn from every graph of up to       *)
(* MaxNodes nodes, with at most one edge between two nodes.                *)
(***************************************************************************)
MaxNodes == 4

Entities == 1..MaxNodes

\* The graphs split() is called on.
WorkerGraphs ==
    {g \in [nodes : SUBSET Entities, procedural : SUBSET Entities,
            edges : SUBSET {{a, b} : a, b \in Entities}] :
        /\ g.procedural \subseteq g.nodes
        /\ \A e \in g.edges : Cardinality(e) = 2 /\ e \subseteq g.nodes}

\* entity_graph: the connecting (procedural) nodes reachable from the nodes
\* of S without passing through a non-connecting node.
RECURSIVE reachable(_, _, _)
reachable(procedural, edges, S) ==
    LET next == S \cup {n \in procedural : \E m \in S : {m, n} \in edges}
    IN  IF next = S THEN S ELSE reachable(procedural, edges, next)

\* entity_graph::connected_components(): one component per group of
\* connected procedural nodes; each pulls in its non-connecting neighbours
\* and the edges at its procedural nodes.
connected_components(nodes, procedural, edges) ==
    {[nodes |-> S \cup {n \in nodes : \E m \in S : {m, n} \in edges},
      edges |-> {e \in edges : e \cap S # {}}] :
         S \in {reachable(procedural, edges, {p}) : p \in procedural}}

\* entity_graph::is_single_connected_component().
is_single_connected_component(nodes, procedural, edges) ==
    Cardinality(connected_components(nodes, procedural, edges)) <= 1

\* split()'s measure of a component: lhs.nodes.size() + lhs.edges.size().
component_size(c) == Cardinality(c.nodes) + Cardinality(c.edges)

\* split(): std::sort by size, biggest first.  Components of equal size may
\* come out in any order.
sorted_orders(C) ==
    {f \in [1..Cardinality(C) -> C] :
        /\ \A i, j \in DOMAIN f : i # j => f[i] # f[j]
        /\ \A i, j \in DOMAIN f :
               i < j => component_size(f[i]) >= component_size(f[j])}

\* split(): remaining_non_procedural_entities, the non-procedural nodes of
\* the resident component.
remaining_non_procedural(resident, procedural) == resident.nodes \ procedural

\* A loop body that destroys every node of the component that is still
\* valid.
moved_out_all(component, remaining, valid) == component.nodes \cap valid

\* split(): the entities of a moving component that the loop destroys: not
\* among the remaining non-procedural ones, and still valid.
moved_out(component, remaining, valid) ==
    (component.nodes \ remaining) \cap valid

\* The delta builder as split() finds it.
NoSplitDelta ==
    [updated_nodes |-> {}, updated_edges |-> {}, destroyed_nodes |-> {},
     destroyed_edges |-> {}, sent |-> FALSE]

\* The mutant: the early return is taken only without any component.
split_returns_early_none(C) == Cardinality(C) < 1

\* split(): connected_components.size() <= 1.
split_returns_early(C) == Cardinality(C) <= 1

\* split() is called: process_messages(), connected_components(); with at
\* most one component it clears the flag, calls reschedule_now() and returns
\* nothing; otherwise it sorts.
SplitStart ==
    /\ split_pc = "called"
    /\ \E msgs \in Contents(Len(inbox)) :
          LET w == process_messages(W, msgs, now)
          IN  /\ m_state' = w.m_state
              /\ paused' = w.paused
              /\ sleeping' = w.sleeping
              /\ island_time' = w.island_time
    /\ inbox' = <<>>
    /\ split_delta' = NoSplitDelta
    /\ LET C == connected_components(graph_nodes, graph_procedural, graph_edges)
       IN IF split_returns_early(C)
          THEN /\ m_splitting' = FALSE
               /\ jobs_ready' = jobs_ready + 1
               /\ split_return' = <<>>
               /\ split_pc' = "done"
               /\ UNCHANGED <<components, split_index>>
          ELSE /\ components' \in sorted_orders(C)
               /\ split_index' = 2
               /\ split_pc' = "loop"
               /\ UNCHANGED <<m_splitting, jobs_ready, split_return>>
    /\ UNCHANGED <<m_terminating, m_terminated, split_requested, posted,
                   jobs_delayed, async_pending, obs, m_reschedule_counter, thr,
                   coord, now, fsm, graphv, graph_before, syncv, addedSplit>>

\* One turn of split()'s loop: updated_all() for each node of components[i]
\* that moves out, then its destruction; on_destroy_graph_node() destroys
\* the edges at each of them.  The observers put the destructions into the
\* delta unless m_splitting is set.
SplitMoveOut ==
    /\ split_pc = "loop"
    /\ split_index <= Len(components)
    /\ LET gone == moved_out(components[split_index],
                             remaining_non_procedural(components[1],
                                                      graph_procedural),
                             graph_nodes)
           gone_edges == {e \in graph_edges : e \cap gone # {}}
       IN /\ graph_nodes' = graph_nodes \ gone
          /\ graph_procedural' = graph_procedural \ gone
          /\ graph_edges' = graph_edges \ gone_edges
          /\ split_delta' =
                 [split_delta EXCEPT
                     !.updated_nodes = @ \cup gone,
                     !.destroyed_nodes =
                         IF m_splitting THEN @ ELSE @ \cup gone,
                     !.destroyed_edges =
                         IF m_splitting THEN @ ELSE @ \cup gone_edges]
    /\ split_index' = split_index + 1
    /\ UNCHANGED <<flags, reg, queues, disp, obs, m_reschedule_counter, thr,
                   coord, clock, fsm, components, split_return, split_pc,
                   graph_before, syncv, addedSplit>>

\* split() after the loop: the delta is sent, m_splitting.store(false),
\* reschedule_now(), and the components are returned.
SplitFinish ==
    /\ split_pc = "loop"
    /\ split_index > Len(components)
    /\ split_delta' = [split_delta EXCEPT !.sent = TRUE]
    /\ m_splitting' = FALSE
    /\ jobs_ready' = jobs_ready + 1
    /\ split_return' = components
    /\ split_pc' = "done"
    /\ UNCHANGED <<m_terminating, m_terminated, reg, queues, jobs_delayed,
                   async_pending, obs, m_reschedule_counter, thr, coord, clock,
                   fsm, graphv, components, split_index, graph_before, syncv,
                   addedSplit>>

\* A worker in state step that has asked for a split, and the coordinator
\* calling split().
InitSplit ==
    /\ m_state = "step"
    /\ m_splitting = TRUE
    /\ m_terminating = FALSE
    /\ m_terminated = FALSE
    /\ m_reschedule_counter = 1
    /\ paused = FALSE
    /\ sleeping = FALSE
    /\ inbox \in {<<>>, <<Unread>>}
    /\ split_requested = FALSE
    /\ jobs_ready = 0
    /\ jobs_delayed = 0
    /\ async_pending = 0
    /\ thr = [t \in Threads |-> "idle"]
    /\ coord = [pc |-> "split", terminate_called |-> FALSE]
    /\ posted = 0
    /\ assert_failed = FALSE
    /\ awaiting_split = TRUE
    /\ mid_request = FALSE
    /\ FsmAtConstruction
    /\ OthersAtConstruction
    /\ NoComponents
    /\ now = 0
    /\ island_time = 0
    /\ \E g \in WorkerGraphs :
          /\ graph_nodes = g.nodes
          /\ graph_procedural = g.procedural
          /\ graph_edges = g.edges
          /\ graph_before = g
    /\ components = <<>>
    /\ split_index = 0
    /\ split_return = <<>>
    /\ split_pc = "called"

NextSplit == SplitStart \/ SplitMoveOut \/ SplitFinish

SpecSplit == InitSplit /\ [][NextSplit]_vars

\* split() has returned more than one component.
SplitDone == split_pc = "done" /\ Len(split_return) > 1

\* The components of the graph split() was called on.
ComponentsBefore ==
    connected_components(graph_before.nodes, graph_before.procedural,
                         graph_before.edges)

\* The nodes of the graph split() was called on that are in none of its
\* components: non-procedural nodes without a procedural neighbour.
Unattached ==
    graph_before.nodes \ UNION {c.nodes : c \in ComponentsBefore}

\* What C9 says of the components returned and of what is removed, whatever
\* is kept: all k are returned, the first is a largest, the nodes and edges of
\* the others are gone but for the non-procedural nodes of the first, and the
\* graph is left a single connected component.
SplitReturnsAndRemoves ==
    LET resident == split_return[1]
        others == {split_return[i] : i \in 2..Len(split_return)}
    IN  /\ Len(split_return) = Cardinality(ComponentsBefore)
        /\ {split_return[i] : i \in 1..Len(split_return)} = ComponentsBefore
        /\ \A c \in ComponentsBefore :
               component_size(c) <= component_size(resident)
        /\ \A c \in others :
               /\ c.edges \cap graph_edges = {}
               /\ c.nodes \cap graph_nodes
                      = c.nodes \cap (resident.nodes \ graph_before.procedural)
        /\ is_single_connected_component(graph_nodes, graph_procedural,
                                         graph_edges)

(***************************************************************************)
(* C9 as stated.  When split() finds k > 1 connected components it returns *)
(* all k, keeps in the worker exactly the entities of the largest one (by  *)
(* node count plus edge count), removes every node and edge of the others  *)
(* except the non-procedural nodes that also belong to the largest, and    *)
(* leaves the worker's graph a single connected component.                 *)
(***************************************************************************)
C9_Original ==
    SplitDone =>
        /\ SplitReturnsAndRemoves
        /\ graph_nodes = split_return[1].nodes
        /\ graph_edges = split_return[1].edges

(***************************************************************************)
(* C9 amended.  When split() finds k > 1 connected components it returns   *)
(* all k, keeps in the worker the entities of the largest one (by node     *)
(* count plus edge count) and, besides them, the non-procedural nodes that *)
(* belong to no component and the edges that join two kept non-procedural  *)
(* nodes; it removes every node and edge of the other components except    *)
(* the non-procedural nodes that also belong to the largest, and leaves    *)
(* the worker's graph a single connected component.                        *)
(***************************************************************************)
C9_Amended ==
    SplitDone =>
        /\ SplitReturnsAndRemoves
        /\ graph_nodes = split_return[1].nodes \cup Unattached
        /\ graph_edges =
               split_return[1].edges
               \cup {e \in graph_before.edges :
                        e \subseteq graph_nodes \ graph_before.procedural}

\* split() has returned two components that shared a non-procedural node,
\* and that node is still there; a node that belonged to no component is
\* still there too.
C9_Witness ==
    /\ SplitDone
    /\ Len(split_return) = 2
    /\ split_return[2].nodes \cap split_return[1].nodes \cap graph_nodes # {}
    /\ Unattached # {}
    /\ Cardinality(graph_nodes) < Cardinality(graph_before.nodes)

(***************************************************************************)
(* SpecSync: sync() and sync_dirty().  The registry is drawn from every    *)
(* assignment of components to MaxEntities entities: each is a body with   *)
(* an AABB, a contact_manifold or neither, may have a continuous component *)
(* listing component indexes, and may carry a dirty component.             *)
(***************************************************************************)
MaxEntities == 2
MaxIndex == 1

RegEntities == 1..MaxEntities
ComponentIndices == 1..MaxIndex

\* The dirty component: is_new_entity and the three index lists.
DirtyValues ==
    [present : {TRUE}, is_new_entity : BOOLEAN,
     created_indexes : SUBSET ComponentIndices,
     updated_indexes : SUBSET ComponentIndices,
     destroyed_indexes : SUBSET ComponentIndices]

NotDirty ==
    [present |-> FALSE, is_new_entity |-> FALSE, created_indexes |-> {},
     updated_indexes |-> {}, destroyed_indexes |-> {}]

Registries ==
    [RegEntities -> [kind : {"body", "manifold", "plain"},
                     continuous : SUBSET ComponentIndices,
                     dirty : DirtyValues \cup {NotDirty}]]

\* island_delta_builder: created(entity), created / updated / destroyed of
\* components of an entity, each adding entries to the delta being built.
\* An entry names the entity and the component: the AABB, the
\* contact_manifold, or a component by its index.
builder_created_entity(b, e) ==
    [b EXCEPT !.created_entities = @ \cup {e}]
builder_created(b, e, indexes) ==
    [b EXCEPT !.created = @ \cup {<<e, "index", i>> : i \in indexes}]
builder_updated(b, e, indexes) ==
    [b EXCEPT !.updated = @ \cup {<<e, "index", i>> : i \in indexes}]
builder_destroyed(b, e, indexes) ==
    [b EXCEPT !.destroyed = @ \cup {<<e, "index", i>> : i \in indexes}]

\* The entities of m_registry.view<dirty>().
dirty_view(r) == {e \in DOMAIN r : r[e].dirty.present}

\* sync_dirty(): what one dirty entity adds to the builder.
sync_dirty_entity(b, e, d) ==
    LET b1 == IF d.is_new_entity THEN builder_created_entity(b, e) ELSE b
        b2 == builder_created(b1, e, d.created_indexes)
        b3 == builder_updated(b2, e, d.updated_indexes)
    IN  builder_destroyed(b3, e, d.destroyed_indexes)

\* sync_dirty(): the loop over the dirty view.
RECURSIVE sync_dirty_each(_, _, _)
sync_dirty_each(b, r, todo) ==
    IF todo = {} THEN b
    ELSE LET e == CHOOSE x \in todo : TRUE
         IN  sync_dirty_each(sync_dirty_entity(b, e, r[e].dirty), r,
                             todo \ {e})

\* m_registry.clear<dirty>().
clear_dirty(r) == [e \in DOMAIN r |-> [r[e] EXCEPT !.dirty = NotDirty]]

\* sync(): the update entry of each entity in m_registry.view<AABB>().
aabb_updates(r) == {<<e, "AABB", 0>> : e \in {x \in DOMAIN r : r[x].kind = "body"}}

\* sync(): the update entry of each entity in
\* m_registry.view<contact_manifold>().
manifold_updates(r) ==
    {<<e, "contact_manifold", 0>> : e \in {x \in DOMAIN r : r[x].kind = "manifold"}}

\* A sync() that leaves the continuous components out.
continuous_updates_none(r) == {}

\* sync(): the update entries of the indices of each continuous component.
continuous_updates(r) ==
    UNION {{<<e, "index", i>> : i \in r[e].continuous} : e \in DOMAIN r}

\* What the state machine and split() parts hold while sync() is studied.
OutsideSync == <<schedVars, clock, fsm, splitv, added>>

\* run_narrowphase() / finish_narrowphase(): sync_dirty() ahead of sync().
NarrowphaseSyncDirty ==
    /\ sync_pc = "step"
    /\ m_delta_builder' = sync_dirty_each(m_delta_builder, registry,
                                          dirty_view(registry))
    /\ registry' = clear_dirty(registry)
    /\ sync_pc' = "solve"
    /\ UNCHANGED <<OutsideSync, delta_sent, registry_at_sync>>

\* finish_step() calls sync().
SyncCall ==
    /\ sync_pc \in {"step", "solve"}
    /\ registry_at_sync' = registry
    /\ sync_pc' = "aabb"
    /\ UNCHANGED <<OutsideSync, registry, m_delta_builder, delta_sent>>

\* sync(): the loop over view<AABB>.
SyncAabb ==
    /\ sync_pc = "aabb"
    /\ m_delta_builder' =
           [m_delta_builder EXCEPT !.updated = @ \cup aabb_updates(registry)]
    /\ sync_pc' = "manifold"
    /\ UNCHANGED <<OutsideSync, registry, delta_sent, registry_at_sync>>

\* sync(): the loop over view<contact_manifold>.
SyncManifold ==
    /\ sync_pc = "manifold"
    /\ m_delta_builder' =
           [m_delta_builder EXCEPT !.updated = @ \cup manifold_updates(registry)]
    /\ sync_pc' = "continuous"
    /\ UNCHANGED <<OutsideSync, registry, delta_sent, registry_at_sync>>

\* sync(): the loop over view<continuous>.
SyncContinuous ==
    /\ sync_pc = "continuous"
    /\ m_delta_builder' =
           [m_delta_builder EXCEPT
                !.updated = @ \cup continuous_updates(registry)]
    /\ sync_pc' = "dirty"
    /\ UNCHANGED <<OutsideSync, registry, delta_sent, registry_at_sync>>

\* sync(): sync_dirty().
SyncDirty ==
    /\ sync_pc = "dirty"
    /\ m_delta_builder' = sync_dirty_each(m_delta_builder, registry,
                                          dirty_view(registry))
    /\ registry' = clear_dirty(registry)
    /\ sync_pc' = "finish"
    /\ UNCHANGED <<OutsideSync, delta_sent, registry_at_sync>>

\* sync(): m_delta_builder->finish() and the send of the delta.
SyncFinish ==
    /\ sync_pc = "finish"
    /\ delta_sent' = m_delta_builder
    /\ m_delta_builder' = EmptyDelta
    /\ sync_pc' = "sent"
    /\ UNCHANGED <<OutsideSync, registry, registry_at_sync>>

\* A worker in a step, about to run the narrow-phase.
InitSync ==
    /\ m_state = "narrowphase"
    /\ m_splitting = FALSE
    /\ m_terminating = FALSE
    /\ m_terminated = FALSE
    /\ m_reschedule_counter = 1
    /\ paused = FALSE
    /\ sleeping = FALSE
    /\ inbox = <<>>
    /\ split_requested = FALSE
    /\ jobs_ready = 0
    /\ jobs_delayed = 0
    /\ async_pending = 0
    /\ thr = [t \in Threads |-> "idle"]
    /\ coord = [pc |-> "idle", terminate_called |-> FALSE]
    /\ posted = 0
    /\ assert_failed = FALSE
    /\ awaiting_split = FALSE
    /\ mid_request = FALSE
    /\ FsmAtConstruction
    /\ OthersAtConstruction
    /\ NoGraph
    /\ now = 0
    /\ island_time = 0
    /\ registry \in Registries
    /\ m_delta_builder = EmptyDelta
    /\ delta_sent = EmptyDelta
    /\ sync_pc = "step"
    /\ registry_at_sync = <<>>

NextSync ==
    \/ NarrowphaseSyncDirty
    \/ SyncCall
    \/ SyncAabb
    \/ SyncManifold
    \/ SyncContinuous
    \/ SyncDirty
    \/ SyncFinish

SpecSync == InitSync /\ [][NextSync]_vars

(***************************************************************************)
(* C10.  The delta sent by sync() has an update entry for every entity     *)
(* with an AABB, for every contact_manifold and for every index listed in  *)
(* every entity's continuous component, and the created, updated and       *)
(* destroyed entries of every dirty entity; after sync() no entity of the  *)
(* registry carries a dirty component.                                     *)
(***************************************************************************)
C10_SyncDelta ==
    sync_pc = "sent" =>
        /\ \A e \in RegEntities :
              LET c == registry_at_sync[e]
              IN  /\ c.kind = "body" => <<e, "AABB", 0>> \in delta_sent.updated
                  /\ c.kind = "manifold"
                         => <<e, "contact_manifold", 0>> \in delta_sent.updated
                  /\ \A i \in c.continuous :
                         <<e, "index", i>> \in delta_sent.updated
                  /\ c.dirty.present =>
                         /\ c.dirty.is_new_entity
                                => e \in delta_sent.created_entities
                         /\ \A i \in c.dirty.created_indexes :
                                <<e, "index", i>> \in delta_sent.created
                         /\ \A i \in c.dirty.updated_indexes :
                                <<e, "index", i>> \in delta_sent.updated
                         /\ \A i \in c.dirty.destroyed_indexes :
                                <<e, "index", i>> \in delta_sent.destroyed
        /\ \A e \in RegEntities : ~registry[e].dirty.present

\* sync() has sent the delta of a registry with a body, a manifold, a
\* continuous component and a new dirty entity.
C10_Witness ==
    /\ sync_pc = "sent"
    /\ \E e \in RegEntities : registry_at_sync[e].kind = "body"
    /\ \E e \in RegEntities : registry_at_sync[e].kind = "manifold"
    /\ \E e \in RegEntities : registry_at_sync[e].continuous # {}
    /\ \E e \in RegEntities :
           /\ registry_at_sync[e].dirty.present
           /\ registry_at_sync[e].dirty.is_new_entity
           /\ registry_at_sync[e].dirty.updated_indexes # {}
           /\ registry_at_sync[e].continuous = {}
    /\ delta_sent.created_entities # {}

(***************************************************************************)
(* SpecObs: the on_destroy observers of the worker registry.  An entity    *)
(* is a graph node or a graph edge; the entity of an edge may also carry a *)
(* contact_manifold, and then both observers run when it is destroyed.     *)
(* Each operation that destroys entities runs the observers with the       *)
(* values m_importing_delta, m_splitting and m_clearing_dangling_np_nodes  *)
(* have at that point of the code.                                         *)
(***************************************************************************)
MaxObsNodes == 3

\* The entity of the edge that joins two nodes.
EdgeEntity(edge) ==
    LET a == CHOOSE x \in edge : \A y \in edge : x <= y
    IN  10 * a + (CHOOSE y \in edge : y # a)

\* on_destroy_graph_node, on_destroy_graph_edge: the condition under which
\* m_delta_builder->destroyed(entity) is called.
node_or_edge_reported(importing, splitting, clearing) ==
    ~importing /\ ~splitting /\ ~clearing

\* on_destroy_contact_manifold: the condition under which
\* m_delta_builder->destroyed(entity) is called.
manifold_reported(importing, splitting, clearing) ==
    ~importing /\ ~splitting

\* registry.destroy() of the nodes N and of the edges E, with the observers
\* it runs: on_destroy_graph_node destroys the edges at the node;
\* on_destroy_graph_edge notes the non-procedural ends of the edge as
\* possibly dangling; each observer calls destroyed(entity) under its
\* condition.  Yields the graph, the set of possibly dangling nodes, the
\* builder and the observer calls made.
destroy_entities(N, E, importing, splitting, clearing) ==
    LET edges_gone == E \cup {e \in graph_edges : e \cap N # {}}
        calls == {[entity |-> n, observer |-> "graph_node"] : n \in N}
                 \cup {[entity |-> EdgeEntity(e), observer |-> "graph_edge"] :
                          e \in edges_gone}
                 \cup {[entity |-> EdgeEntity(e),
                        observer |-> "contact_manifold"] :
                          e \in edges_gone \cap edge_manifolds}
        reported ==
            {c.entity : c \in
                {d \in calls :
                    IF d.observer = "contact_manifold"
                    THEN manifold_reported(importing, splitting, clearing)
                    ELSE node_or_edge_reported(importing, splitting,
                                               clearing)}}
    IN  [nodes |-> graph_nodes \ N,
         procedural |-> graph_procedural \ N,
         edges |-> graph_edges \ edges_gone,
         manifolds |-> edge_manifolds \ edges_gone,
         dangling |-> m_possibly_dangling_np_nodes
                      \cup ((UNION edges_gone) \ graph_procedural),
         builder |-> [m_delta_builder EXCEPT
                         !.destroyed = @ \cup {<<x, "entity", 0>> :
                                                  x \in reported}],
         events |-> {[entity |-> c.entity, observer |-> c.observer,
                      importing |-> importing, splitting |-> splitting,
                      clearing |-> clearing] : c \in calls}]

\* The registry and the builder after an operation that destroyed entities.
Destroyed(r) ==
    /\ graph_nodes' = r.nodes
    /\ graph_procedural' = r.procedural
    /\ graph_edges' = r.edges
    /\ edge_manifolds' = r.manifolds
    /\ m_delta_builder' = r.builder
    /\ destroy_events' = r.events

\* What the observers leave alone.
OutsideObs ==
    <<m_terminating, m_terminated, reg, queues, disp, obs,
      m_reschedule_counter, thr, coord, clock, fsm, components, split_index,
      split_return, split_pc, graph_before, registry, delta_sent, sync_pc,
      registry_at_sync, sleepv, fixed_dt, serverv>>

\* on_island_delta(): delta.import() destroys an entity the coordinator
\* destroyed, between m_importing_delta = true and m_importing_delta =
\* false.  (A delta that destroys several entities acts as several deltas.)
ObsOnIslandDelta ==
    /\ \E N \in {{n} : n \in graph_nodes} \cup {{}} :
       \E E \in {{e} : e \in graph_edges} \cup {{}} :
          /\ Cardinality(N) + Cardinality(E) = 1
          /\ LET r == destroy_entities(N, E, TRUE, m_splitting, FALSE)
             IN  /\ Destroyed(r)
                 /\ m_possibly_dangling_np_nodes' = r.dangling
    /\ UNCHANGED <<OutsideObs, m_splitting>>

\* A step of the simulation destroys an entity of the registry: the
\* broad-phase a contact manifold whose AABBs have separated, a system an
\* entity of its own.  The worker is not awaiting a split.
ObsStepDestroy ==
    /\ ~m_splitting
    /\ \E N \in {{n} : n \in graph_nodes} \cup {{}} :
       \E E \in {{e} : e \in graph_edges} \cup {{}} :
          /\ Cardinality(N) + Cardinality(E) = 1
          /\ LET r == destroy_entities(N, E, FALSE, FALSE, FALSE)
             IN  /\ Destroyed(r)
                 /\ m_possibly_dangling_np_nodes' = r.dangling
    /\ UNCHANGED <<OutsideObs, m_splitting>>

\* clear_dangling_non_procedural_nodes(): the possibly dangling nodes that
\* are still valid and have no procedural neighbour are destroyed, and the
\* set is cleared.
ObsClearDangling ==
    /\ ~m_splitting
    /\ LET N == {n \in m_possibly_dangling_np_nodes \cap graph_nodes :
                    ~\E p \in graph_procedural : {n, p} \in graph_edges}
           r == destroy_entities(N, {}, FALSE, FALSE, TRUE)
       IN  Destroyed(r)
    /\ m_possibly_dangling_np_nodes' = {}
    /\ UNCHANGED <<OutsideObs, m_splitting>>

\* finish_step(): should_split() finds more than one connected component
\* and m_splitting is set.
ObsRequestSplit ==
    /\ ~m_splitting
    /\ ~is_single_connected_component(graph_nodes, graph_procedural,
                                      graph_edges)
    /\ m_splitting' = TRUE
    /\ destroy_events' = {}
    /\ UNCHANGED <<OutsideObs, graphv, edge_manifolds, m_delta_builder,
                   m_possibly_dangling_np_nodes>>

\* split(): the nodes of every component but the largest are destroyed,
\* save the non-procedural nodes of the largest; then m_splitting is
\* cleared.
ObsSplit ==
    /\ m_splitting
    /\ \E order \in sorted_orders(connected_components(
                        graph_nodes, graph_procedural, graph_edges)) :
          LET remaining == IF Len(order) = 0 THEN {}
                           ELSE remaining_non_procedural(order[1],
                                                         graph_procedural)
              N == UNION {moved_out(order[i], remaining, graph_nodes) :
                             i \in 2..Len(order)}
              r == destroy_entities(N, {}, FALSE, TRUE, FALSE)
          IN  /\ Destroyed(r)
              /\ m_possibly_dangling_np_nodes' = r.dangling
    /\ m_splitting' = FALSE
    /\ UNCHANGED OutsideObs

\* A worker in state step with the entities it has imported: any graph of up
\* to MaxObsNodes nodes in which every non-procedural node has a procedural
\* neighbour, any of its edges a contact manifold.
InitObs ==
    /\ m_state = "step"
    /\ m_splitting = FALSE
    /\ m_terminating = FALSE
    /\ m_terminated = FALSE
    /\ m_reschedule_counter = 1
    /\ paused = FALSE
    /\ sleeping = FALSE
    /\ inbox = <<>>
    /\ split_requested = FALSE
    /\ jobs_ready = 0
    /\ jobs_delayed = 0
    /\ async_pending = 0
    /\ thr = [t \in Threads |-> "idle"]
    /\ coord = [pc |-> "idle", terminate_called |-> FALSE]
    /\ posted = 0
    /\ assert_failed = FALSE
    /\ awaiting_split = FALSE
    /\ mid_request = FALSE
    /\ FsmAtConstruction
    /\ NoComponents
    /\ now = 0
    /\ island_time = 0
    /\ \E g \in WorkerGraphs :
          /\ g.nodes \subseteq 1..MaxObsNodes
          /\ \A n \in g.nodes \ g.procedural :
                 \E q \in g.procedural : {n, q} \in g.edges
          /\ graph_nodes = g.nodes
          /\ graph_procedural = g.procedural
          /\ graph_edges = g.edges
          /\ edge_manifolds \in SUBSET g.edges
    /\ graph_before = [nodes |-> {}, edges |-> {}]
    /\ components = <<>>
    /\ split_index = 0
    /\ split_return = <<>>
    /\ split_pc = "none"
    /\ m_possibly_dangling_np_nodes = {}
    /\ destroy_events = {}
    /\ NoBodies
    /\ fixed_dt = FixedDt
    /\ NoServer

NextObs ==
    \/ ObsOnIslandDelta
    \/ ObsStepDestroy
    \/ ObsClearDangling
    \/ ObsRequestSplit
    \/ ObsSplit

SpecObs == InitObs /\ [][NextObs]_vars

(***************************************************************************)
(* C11.  A local destruction of a graph node, a graph edge or a contact    *)
(* manifold in the worker registry adds a destroyed entry to the outbound  *)
(* delta if and only if the worker is at that moment not importing a       *)
(* coordinator delta, not executing a split, and not clearing dangling     *)
(* non-procedural nodes.                                                   *)
(***************************************************************************)
C11_DestroyedIffUnsuppressed ==
    \A ev \in destroy_events :
        (<<ev.entity, "entity", 0>> \in m_delta_builder.destroyed)
            <=> (~ev.importing /\ ~ev.splitting /\ ~ev.clearing)


(***************************************************************************)
(* SpecSleep: sleeping and waking.  The worker is in state step between    *)
(* steps; the handlers of the coordinator's messages run there, a step     *)
(* runs from should_step() to the solver in one move, and finish_step()    *)
(* in another.  A speed is a level: SleepThreshold is a speed equal to the *)
(* sleep threshold, SleepThreshold + 1 a speed above it.                   *)
(***************************************************************************)
MaxBodies == 2
IslandTimeToSleep == 2
SleepThreshold == 1

IslandEntity == 0
SleepBodies == 1..MaxBodies

\* The <<linear, angular>> speeds a body with velocities may have.
Velocities ==
    {<<0, 0>>, <<SleepThreshold, SleepThreshold>>, <<SleepThreshold + 1, 0>>,
     <<0, SleepThreshold + 1>>}

\* m_registry.view<procedural_tag>(): dynamic bodies and constraints.
procedural_view(b) ==
    {e \in DOMAIN b : b[e].kind \in {"dynamic", "constraint"}}

\* The entities with linvel and angvel: dynamic and kinematic bodies.
velocity_view(b) ==
    {e \in DOMAIN b : b[e].kind \in {"dynamic", "kinematic"}}

\* could_go_to_sleep()
could_go_to_sleep(b) ==
    /\ {e \in DOMAIN b : b[e].sleeping_disabled} = {}
    /\ \A e \in velocity_view(b) \cap procedural_view(b) :
           ~(b[e].linvel > SleepThreshold \/ b[e].angvel > SleepThreshold)

\* A maybe_go_to_sleep() that keeps m_sleep_timestamp when
\* could_go_to_sleep() fails.
maybe_go_to_sleep_kept(b, isle_time, sleep_timestamp) ==
    IF could_go_to_sleep(b)
    THEN IF sleep_timestamp = NoTimestamp
         THEN [sleep |-> FALSE, stamp |-> isle_time]
         ELSE IF isle_time - sleep_timestamp > IslandTimeToSleep
              THEN [sleep |-> TRUE, stamp |-> NoTimestamp]
              ELSE [sleep |-> FALSE, stamp |-> sleep_timestamp]
    ELSE [sleep |-> FALSE, stamp |-> sleep_timestamp]

\* maybe_go_to_sleep(): whether go_to_sleep() is called, and
\* m_sleep_timestamp afterwards.
maybe_go_to_sleep(b, isle_time, sleep_timestamp) ==
    IF could_go_to_sleep(b)
    THEN IF sleep_timestamp = NoTimestamp
         THEN [sleep |-> FALSE, stamp |-> isle_time]
         ELSE IF isle_time - sleep_timestamp > IslandTimeToSleep
              THEN [sleep |-> TRUE, stamp |-> NoTimestamp]
              ELSE [sleep |-> FALSE, stamp |-> sleep_timestamp]
    ELSE [sleep |-> FALSE, stamp |-> NoTimestamp]

\* A go_to_sleep() that leaves angvel as it is.
go_to_sleep_linear(b, builder) ==
    [bodies |-> [e \in DOMAIN b |->
                    IF e \in procedural_view(b)
                    THEN [b[e] EXCEPT !.linvel = 0, !.sleeping_tag = TRUE]
                    ELSE b[e]],
     builder |-> [builder EXCEPT
                     !.created = @ \cup {<<IslandEntity, "sleeping_tag", 0>>}
                                   \cup {<<e, "sleeping_tag", 0>> :
                                            e \in procedural_view(b)},
                     !.updated = @ \cup {<<e, "linvel", 0>> :
                                            e \in procedural_view(b)
                                                  \cap velocity_view(b)}]]

\* go_to_sleep(): the bodies and the delta builder afterwards.  (The island
\* entity's sleeping_tag is the variable sleeping.)
go_to_sleep(b, builder) ==
    [bodies |-> [e \in DOMAIN b |->
                    IF e \in procedural_view(b)
                    THEN [b[e] EXCEPT !.linvel = 0, !.angvel = 0,
                                      !.sleeping_tag = TRUE]
                    ELSE b[e]],
     builder |-> [builder EXCEPT
                     !.created = @ \cup {<<IslandEntity, "sleeping_tag", 0>>}
                                   \cup {<<e, "sleeping_tag", 0>> :
                                            e \in procedural_view(b)},
                     !.updated = @ \cup {<<e, c, 0>> :
                                            e \in procedural_view(b)
                                                  \cap velocity_view(b),
                                            c \in {"linvel", "angvel"}}]]

\* What sleeping and waking leave alone.
OutsideSleep ==
    <<flags, queues, disp, obs, m_reschedule_counter, thr, coord, fpc, entry,
      batch, splitCalc, last_handled, start_posted, splitv, registry,
      m_delta_builder, sync_pc, registry_at_sync, obsreg, fixed_dt,
      serverv>>

\* The clock advances.
SleepTick ==
    /\ now < MaxTime
    /\ now' = now + 1
    /\ UNCHANGED <<OutsideSleep, reg, island_time, m_step_start_time,
                   delta_sent, sleepv>>

\* process_messages() delivers msg::set_paused.
SleepOnSetPaused ==
    /\ m_state \in {"step", "begin_step"}
    /\ \E flag \in BOOLEAN :
          LET w == on_set_paused(W, Msg("set_paused", flag), now)
          IN  /\ paused' = w.paused
              /\ island_time' = w.island_time
    /\ UNCHANGED <<OutsideSleep, m_state, sleeping, now, m_step_start_time,
                   delta_sent, sleepv>>

\* process_messages() delivers msg::step_simulation.
SleepOnStepSimulation ==
    /\ m_state \in {"step", "begin_step"}
    /\ m_state' = on_step_simulation(W).m_state
    /\ UNCHANGED <<OutsideSleep, paused, sleeping, clock, m_step_start_time,
                   delta_sent, sleepv>>

\* process_messages() delivers msg::wake_up_island: on_wake_up_island()
\* returns at once unless the island has a sleeping_tag; otherwise it sets
\* the island timestamp, clears every sleeping_tag and sends a delta with
\* the timestamp and the tags destroyed.
SleepOnWakeUpIsland ==
    /\ m_state \in {"step", "begin_step"}
    /\ LET w == on_wake_up_island(W, now)
       IN  /\ sleeping' = w.sleeping
           /\ island_time' = w.island_time
    /\ IF sleeping
       THEN /\ bodies' = [e \in DOMAIN bodies |->
                             [bodies[e] EXCEPT !.sleeping_tag = FALSE]]
            /\ delta_sent' =
                  [EmptyDelta EXCEPT
                      !.updated = {<<IslandEntity, "island_timestamp", 0>>},
                      !.destroyed =
                          {<<IslandEntity, "sleeping_tag", 0>>}
                          \cup {<<e, "sleeping_tag", 0>> :
                                   e \in {x \in DOMAIN bodies :
                                             bodies[x].sleeping_tag}}]
       ELSE UNCHANGED <<bodies, delta_sent>>
    /\ UNCHANGED <<OutsideSleep, m_state, paused, now, m_step_start_time,
                   m_sleep_timestamp, calm_since>>

\* process_messages() delivers an island_delta that updates the velocity of
\* a body of the island: on_island_delta() imports it.
SleepOnIslandDelta ==
    /\ m_state \in {"step", "begin_step"}
    /\ \E e \in velocity_view(bodies) : \E v \in Velocities :
          bodies' = [bodies EXCEPT ![e].linvel = v[1], ![e].angvel = v[2]]
    /\ UNCHANGED <<OutsideSleep, reg, clock, m_step_start_time, delta_sent,
                   m_sleep_timestamp, calm_since>>

\* update() in state step after process_messages(): should_step() holds and
\* the step runs up to the solver, which leaves the dynamic bodies with new
\* velocities.  (Island time is followed up to MaxTime.)
SleepStep ==
    /\ m_state \in {"step", "begin_step"}
    /\ island_time < MaxTime
    /\ should_step(W, now)
    /\ m_step_start_time' = now
    /\ m_state' = "finish_step"
    /\ \E v \in [{e \in DOMAIN bodies : bodies[e].kind = "dynamic"}
                    -> Velocities] :
          bodies' = [e \in DOMAIN bodies |->
                        IF e \in DOMAIN v
                        THEN [bodies[e] EXCEPT !.linvel = v[e][1],
                                               !.angvel = v[e][2]]
                        ELSE bodies[e]]
    /\ UNCHANGED <<OutsideSleep, paused, sleeping, clock, delta_sent,
                   m_sleep_timestamp, calm_since>>

\* finish_step(): the island timestamp, maybe_go_to_sleep(), and sync(),
\* which adds the AABBs and sends what the builder holds.
SleepFinishStep ==
    /\ m_state = "finish_step"
    /\ LET isle == finish_time(island_time, m_step_start_time)
           m == maybe_go_to_sleep(bodies, isle, m_sleep_timestamp)
           stamped == [EmptyDelta EXCEPT
                          !.updated = {<<IslandEntity, "island_timestamp", 0>>,
                                       <<IslandEntity, "tree_view", 0>>}]
           g == IF m.sleep THEN go_to_sleep(bodies, stamped)
                ELSE [bodies |-> bodies, builder |-> stamped]
       IN  /\ island_time' = isle
           /\ m_sleep_timestamp' = m.stamp
           /\ sleeping' = (sleeping \/ m.sleep)
           /\ bodies' = g.bodies
           /\ delta_sent' =
                  [g.builder EXCEPT
                      !.updated = @ \cup {<<e, "AABB", 0>> :
                                             e \in velocity_view(bodies)}]
           /\ calm_since' = IF ~could_go_to_sleep(bodies) THEN NoTimestamp
                            ELSE IF calm_since = NoTimestamp THEN isle
                            ELSE IF isle < calm_since THEN isle
                            ELSE calm_since
    /\ m_state' = "step"
    /\ UNCHANGED <<OutsideSleep, paused, now, m_step_start_time>>

\* A worker in state step after init() imported the island's bodies: the
\* first is a dynamic body, the others dynamic or kinematic bodies or
\* constraints, the last with or without a sleeping_disabled_tag.
InitSleep ==
    /\ m_state = "step"
    /\ m_splitting = FALSE
    /\ m_terminating = FALSE
    /\ m_terminated = FALSE
    /\ m_reschedule_counter = 1
    /\ paused = FALSE
    /\ sleeping = FALSE
    /\ inbox = <<>>
    /\ split_requested = FALSE
    /\ jobs_ready = 0
    /\ jobs_delayed = 0
    /\ async_pending = 0
    /\ thr = [t \in Threads |-> "idle"]
    /\ coord = [pc |-> "idle", terminate_called |-> FALSE]
    /\ posted = 0
    /\ assert_failed = FALSE
    /\ awaiting_split = FALSE
    /\ mid_request = FALSE
    /\ FsmAtConstruction
    /\ NoGraph
    /\ NoComponents
    /\ NoDestroyEvents
    /\ now = 0
    /\ island_time = 0
    /\ \E kinds \in [SleepBodies -> {"dynamic", "kinematic", "constraint"}] :
       \E disabled \in SUBSET {MaxBodies} :
          /\ kinds[1] = "dynamic"
          /\ bodies = [e \in SleepBodies |->
                          [kind |-> kinds[e],
                           linvel |-> IF kinds[e] = "kinematic"
                                      THEN SleepThreshold + 1 ELSE 0,
                           angvel |-> 0,
                           sleeping_tag |-> FALSE,
                           sleeping_disabled |-> e \in disabled]]
    /\ m_sleep_timestamp = NoTimestamp
    /\ calm_since = NoTimestamp
    /\ fixed_dt = FixedDt
    /\ NoServer

NextSleep ==
    \/ SleepTick
    \/ SleepOnSetPaused
    \/ SleepOnStepSimulation
    \/ SleepOnWakeUpIsland
    \/ SleepOnIslandDelta
    \/ SleepStep
    \/ SleepFinishStep

SpecSleep == InitSleep /\ [][NextSleep]_vars

\* go_to_sleep() is called in this step.
GoesToSleep == ~sleeping /\ sleeping'

(***************************************************************************)
(* C12.  go_to_sleep() is taken only if could_go_to_sleep() (no entity has *)
(* sleeping_disabled_tag and every procedural body is at or below both the *)
(* linear and the angular speed threshold) held at every finish_step over  *)
(* an uninterrupted span of island time longer than island_time_to_sleep;  *)
(* any finish_step at which it fails restarts the span.                    *)
(***************************************************************************)
C12_SleepOnlyAfterCalmSpan ==
    [][GoesToSleep =>
          /\ {e \in DOMAIN bodies : bodies[e].sleeping_disabled} = {}
          /\ \A e \in DOMAIN bodies :
                 bodies[e].kind = "dynamic" =>
                     /\ bodies[e].linvel <= SleepThreshold
                     /\ bodies[e].angvel <= SleepThreshold
          /\ calm_since # NoTimestamp
          /\ island_time' - calm_since > IslandTimeToSleep]_vars

\* The island has gone to sleep beside a kinematic body that moves above
\* the threshold, after a finish_step at which could_go_to_sleep() failed.
C12_Witness ==
    /\ sleeping
    /\ \E e \in DOMAIN bodies : bodies[e].kind = "kinematic"
                                /\ bodies[e].linvel > SleepThreshold
    /\ calm_since > 1


(***************************************************************************)
(* C13.  When an island goes to sleep, the island entity and every         *)
(* procedural entity receive sleeping_tag, every procedural entity's       *)
(* linvel and angvel become zero, and the delta emitted by that same       *)
(* finish_step carries those sleeping_tag creations and velocity updates;  *)
(* after that the worker takes no further step until woken.                *)
(***************************************************************************)
C13_SleepEffects ==
    [][/\ GoesToSleep =>
             /\ \A e \in procedural_view(bodies) :
                    /\ bodies'[e].sleeping_tag
                    /\ bodies'[e].linvel = 0
                    /\ bodies'[e].angvel = 0
                    /\ <<e, "sleeping_tag", 0>> \in delta_sent'.created
             /\ \A e \in procedural_view(bodies) \cap velocity_view(bodies) :
                    /\ <<e, "linvel", 0>> \in delta_sent'.updated
                    /\ <<e, "angvel", 0>> \in delta_sent'.updated
             /\ <<IslandEntity, "sleeping_tag", 0>> \in delta_sent'.created
       /\ (sleeping /\ sleeping') => (m_state = "step" /\ m_state' = "step")
      ]_vars

\* An island of two dynamic bodies is asleep and paused has been cleared
\* since; the delta of the finish_step that put it to sleep was the last
\* sent.
C13_Witness ==
    /\ sleeping
    /\ ~paused
    /\ now > island_time
    /\ \A e \in DOMAIN bodies :
           bodies[e].kind = "dynamic" /\ bodies[e].sleeping_tag
    /\ <<IslandEntity, "sleeping_tag", 0>> \in delta_sent.created

(***************************************************************************)
(* C14.  A sleeping island worker wakes (sleeping_tag removed from the     *)
(* island and from all its entities, island timestamp set to now, and a    *)
(* delta reporting the removals sent to the coordinator) when it processes *)
(* a wake_up_island message, and also when it processes an island_delta    *)
(* that touches the island; afterwards should_step() can hold again.       *)
(***************************************************************************)
C14_WakesOnMessage ==
    [][(sleeping /\ (SleepOnWakeUpIsland \/ SleepOnIslandDelta)) =>
          /\ ~sleeping'
          /\ \A e \in DOMAIN bodies : ~bodies'[e].sleeping_tag
          /\ island_time' = now
          /\ <<IslandEntity, "sleeping_tag", 0>> \in delta_sent'.destroyed
      ]_vars


(***************************************************************************)
(* SpecClock: the island timestamp.  fixed_dt is a setting of the          *)
(* registry; the clock runs far enough for a step to start more than       *)
(* max_lagging_steps steps behind it, with and without a remainder.        *)
(***************************************************************************)
FixedDts == {FixedDt, FixedDt + 1}
MaxClock == (MaxLaggingSteps + 1) * (FixedDt + 1) + 2

\* A finish_step() that clamps to the start of the step less
\* max_lagging_steps steps.
finish_step_time_unaligned(isle_time, step_start_time, dt_fixed) ==
    LET dt == step_start_time - isle_time
        num_steps == dt \div dt_fixed
    IN  IF num_steps > MaxLaggingSteps
        THEN step_start_time - MaxLaggingSteps * dt_fixed
        ELSE isle_time + dt_fixed

\* finish_step(): isle_time.value afterwards, for a given fixed_dt.
finish_step_time(isle_time, step_start_time, dt_fixed) ==
    LET dt == step_start_time - isle_time
        num_steps == dt \div dt_fixed
        remainder == dt - num_steps * dt_fixed
    IN  IF num_steps > MaxLaggingSteps
        THEN step_start_time - (remainder + MaxLaggingSteps * dt_fixed)
        ELSE isle_time + dt_fixed

\* What the clock leaves alone.
OutsideClock ==
    <<flags, queues, disp, obs, m_reschedule_counter, thr, coord, fpc, entry,
      batch, splitCalc, last_handled, start_posted, splitv, syncv, obsreg,
      sleepv, sleeping, fixed_dt, serverv>>

\* The clock advances.
ClockTick ==
    /\ now < MaxClock
    /\ now' = now + 1
    /\ UNCHANGED <<OutsideClock, m_state, paused, island_time,
                   m_step_start_time>>

\* process_messages() delivers msg::set_paused: on_set_paused().
ClockOnSetPaused ==
    /\ m_state = "step"
    /\ \E flag \in BOOLEAN :
          LET w == on_set_paused(W, Msg("set_paused", flag), now)
          IN  /\ paused' = w.paused
              /\ island_time' = w.island_time
    /\ UNCHANGED <<OutsideClock, m_state, now, m_step_start_time>>

\* process_messages() delivers msg::step_simulation, and should_step()
\* finds m_state == begin_step; or should_step() finds the island neither
\* paused nor asleep and fixed_dt behind the clock.  The step runs up to the
\* solver.  (Island time is followed up to MaxClock.)
ClockStep ==
    /\ m_state = "step"
    /\ island_time < MaxClock
    /\ \E stepped \in BOOLEAN :
          LET w == IF stepped THEN on_step_simulation(W) ELSE W
          IN  should_step_in(w, ~(now - island_time < fixed_dt))
    /\ m_step_start_time' = now
    /\ m_state' = "finish_step"
    /\ UNCHANGED <<OutsideClock, paused, clock>>

\* finish_step(): the island timestamp.
ClockFinishStep ==
    /\ m_state = "finish_step"
    /\ island_time' = finish_step_time(island_time, m_step_start_time,
                                       fixed_dt)
    /\ m_state' = "step"
    /\ UNCHANGED <<OutsideClock, paused, now, m_step_start_time>>

\* A worker in state step, paused or not, with either fixed_dt.
InitClock ==
    /\ m_state = "step"
    /\ m_splitting = FALSE
    /\ m_terminating = FALSE
    /\ m_terminated = FALSE
    /\ m_reschedule_counter = 1
    /\ paused \in BOOLEAN
    /\ sleeping = FALSE
    /\ inbox = <<>>
    /\ split_requested = FALSE
    /\ jobs_ready = 0
    /\ jobs_delayed = 0
    /\ async_pending = 0
    /\ thr = [t \in Threads |-> "idle"]
    /\ coord = [pc |-> "idle", terminate_called |-> FALSE]
    /\ posted = 0
    /\ assert_failed = FALSE
    /\ awaiting_split = FALSE
    /\ mid_request = FALSE
    /\ FsmAtConstruction
    /\ NoGraph
    /\ NoComponents
    /\ NoDestroyEvents
    /\ NoBodies
    /\ now = 0
    /\ island_time = 0
    /\ fixed_dt \in FixedDts
    /\ NoServer

NextClock ==
    \/ ClockTick
    \/ ClockOnSetPaused
    \/ ClockStep
    \/ ClockFinishStep

SpecClock == InitClock /\ [][NextClock]_vars

\* The whole fixed steps the step started behind the clock.
LaggingSteps == (m_step_start_time - island_time) \div fixed_dt

(***************************************************************************)
(* C15 as stated.  finish_step advances island_time by exactly fixed_dt,   *)
(* except when the step started more than 10 whole fixed steps behind the  *)
(* clock, in which case island_time is clamped to now - 10*fixed_dt so     *)
(* that exactly 10 steps remain to be caught up; in both cases island_time *)
(* strictly increases.  (now is read as the clock when the step started or *)
(* when it finishes, whichever fits.)                                      *)
(***************************************************************************)
C15_Original ==
    [][ClockFinishStep =>
          /\ IF LaggingSteps > MaxLaggingSteps
             THEN island_time' \in
                      {m_step_start_time - MaxLaggingSteps * fixed_dt,
                       now - MaxLaggingSteps * fixed_dt}
             ELSE island_time' = island_time + fixed_dt
          /\ island_time' > island_time]_vars

(***************************************************************************)
(* C15 amended.  finish_step advances island_time by exactly fixed_dt,     *)
(* except when the step started more than 10 whole fixed steps behind the  *)
(* clock, in which case island_time is clamped to the time the step        *)
(* started less 10*fixed_dt and less the part of the lag that is not a     *)
(* whole step, so that exactly 10 whole steps and that part remain to be   *)
(* caught up; in both cases island_time strictly increases.                *)
(***************************************************************************)
C15_Amended ==
    [][ClockFinishStep =>
          LET lag == m_step_start_time - island_time
              part == lag - LaggingSteps * fixed_dt
          IN  /\ IF LaggingSteps > MaxLaggingSteps
                 THEN /\ island_time' = m_step_start_time
                                            - MaxLaggingSteps * fixed_dt - part
                      /\ (m_step_start_time - island_time') \div fixed_dt
                             = MaxLaggingSteps
                 ELSE island_time' = island_time + fixed_dt
              /\ island_time' > island_time]_vars

\* A step that started 11 whole steps and a part of a step behind the clock
\* has finished.
C15_Witness ==
    /\ m_state = "step"
    /\ fixed_dt > 1
    /\ m_step_start_time - island_time = MaxLaggingSteps * fixed_dt + 1

(***************************************************************************)
(* SpecOwner: the server's ownership rule (server_side.cpp).  Clients send *)
(* transient_snapshot, general_snapshot and create_entity packets; every   *)
(* server tick update_island_entity_owners() recomputes the owner of each  *)
(* island.                                                                 *)
(***************************************************************************)
Null == 0               \* entt::null
Clients == {1, 2}       \* the client entities
IslandIds == {1, 2}     \* the island entities
MaxSrvEntities == 5     \* entities 1..4 exist, 5 is the next one created
MaxPackets == 2         \* packets the server receives in one run
MaxPoolSize == 1        \* entities one pool of a packet holds

SrvEntities == 1..MaxSrvEntities

\* The worker, untouched: the networking code runs on the main thread.
workerv == <<schedVars, island_time, fsm, splitv, syncv, obsreg, sleepv,
             fixed_dt>>

WorkerAtConstruction ==
    /\ m_state = "init"
    /\ m_splitting = FALSE
    /\ m_terminating = FALSE
    /\ m_terminated = FALSE
    /\ m_reschedule_counter = 0
    /\ paused = FALSE
    /\ sleeping = FALSE
    /\ inbox = <<>>
    /\ split_requested = FALSE
    /\ jobs_ready = 0
    /\ jobs_delayed = 0
    /\ async_pending = 0
    /\ thr = [t \in Threads |-> "idle"]
    /\ coord = [pc |-> "idle", terminate_called |-> FALSE]
    /\ posted = 0
    /\ assert_failed = FALSE
    /\ awaiting_split = FALSE
    /\ mid_request = FALSE
    /\ FsmAtConstruction
    /\ NoGraph
    /\ NoComponents
    /\ NoDestroyEvents
    /\ NoBodies
    /\ island_time = 0
    /\ fixed_dt = FixedDt

\* The entity client c knows local entity e by: the two registries number
\* their entities independently.
Rem(c, e) == 10 * c + e

RemIds(c) == {Rem(c, e) : e \in SrvEntities}

\* entity_map::has_rem and entity_map::remloc.
has_rem(emap, r) == \E pr \in emap : pr[1] = r

remloc(emap, r) == (CHOOSE pr \in emap : pr[1] = r)[2]

\* The entities of a sparse set in the order its iterator visits them.
RECURSIVE InOrder(_)
InOrder(S) ==
    IF S = {} THEN <<>>
    ELSE LET m == CHOOSE x \in S : \A y \in S : x <= y
         IN  <<m>> \o InOrder(S \ {m})

\* The body of the loop of update_island_entity_owners() over the entities
\* it visits: skip an entity without an owner, take the first owner, and
\* stop with null at a second one.
RECURSIVE owner_walk(_, _)
owner_walk(visited, island_owner) ==
    IF visited = <<>> THEN island_owner
    ELSE LET owner == entity_owner[Head(visited)]
         IN  IF owner = Null THEN owner_walk(Tail(visited), island_owner)
             ELSE IF island_owner = Null
                  THEN owner_walk(Tail(visited), owner)
             ELSE IF island_owner # owner THEN Null
             ELSE owner_walk(Tail(visited), island_owner)

\* update_island_entity_owners() for one island.  The loop runs an iterator
\* of island.nodes up to island.edges.end() and moves it to
\* island.edges.begin() when it reaches island.nodes.end().  Comparing the
\* iterators of two containers is not defined: where they compare by index
\* (ends_equal) the loop ends at nodes.end() and no edge is visited; where
\* they compare by address the loop goes on into the edges, and with no edge
\* it reads *edges.end(), which leaves any owner (stray).
island_owner_after(isle, ends_equal, stray) ==
    IF ends_equal THEN owner_walk(InOrder(isle.nodes), Null)
    ELSE IF isle.edges = {} THEN stray
    ELSE owner_walk(InOrder(isle.nodes) \o InOrder(isle.edges), Null)

\* The islands entity e resides in (island_resident, multi_island_resident).
resident_islands(e) ==
    {i \in IslandIds : e \in islands[i].nodes \cup islands[i].edges}

\* is_fully_owned_by_client().
is_fully_owned_by_client(client_entity, e) ==
    \A i \in resident_islands(e) : islands[i].owner = client_entity

\* pool_snapshot_importer: the local entities a pool of remote entities is
\* applied to.  An entity without a mapping is skipped; with check_ownership
\* so is one that is not fully owned by the client.
import_pool(client_entity, pool, emap, check_ownership) ==
    {remloc(emap, r) : r \in
        {r \in pool :
            /\ has_rem(emap, r)
            /\ (check_ownership =>
                    is_fully_owned_by_client(client_entity, remloc(emap, r)))}}

\* The local entities of a pool, and those of them the client fully owns.
pool_locals(pool, emap) == {remloc(emap, r) : r \in {r \in pool : has_rem(emap, r)}}

pool_owned(client_entity, pool, emap) ==
    {e \in pool_locals(pool, emap) : is_fully_owned_by_client(client_entity, e)}

Pools(c) == {P \in SUBSET RemIds(c) : P # {} /\ Cardinality(P) <= MaxPoolSize}

\* The component value a packet of client c carries.
ValueOf(c) == c

Applied(c, kind, pool, emap, done) ==
    /\ comp_value' = [e \in SrvEntities |->
                          IF e \in done THEN ValueOf(c) ELSE comp_value[e]]
    /\ last_import' = [client |-> c, kind |-> kind, applied |-> done,
                       owned |-> pool_owned(c, pool, emap),
                       discarded |-> pool_locals(pool, emap) \ done]
    /\ received' = received + 1

OutsideOwner == <<workerv, now, aabboi, aabb_sent, packet_queue, processed,
                  snapv, clientv>>

\* process_packet(transient_snapshot): the pools are transformed to local
\* with check_ownership, and sent to the islands their entities reside in,
\* whose workers apply them.
SrvTransientSnapshot ==
    /\ received < MaxPackets
    /\ \E c \in Clients : \E pool \in Pools(c) :
          LET kept == import_pool(c, pool, entity_map[c], TRUE)
              done == {e \in kept : resident_islands(e) # {}}
          IN  Applied(c, "transient_snapshot", pool, entity_map[c], done)
    /\ UNCHANGED <<OutsideOwner, entity_owner, islands, entity_map,
                   valid_entities>>

\* process_packet(general_snapshot): import with check_ownership.
SrvGeneralSnapshot ==
    /\ received < MaxPackets
    /\ \E c \in Clients : \E pool \in Pools(c) :
          Applied(c, "general_snapshot", pool, entity_map[c],
                  import_pool(c, pool, entity_map[c], TRUE))
    /\ UNCHANGED <<OutsideOwner, entity_owner, islands, entity_map,
                   valid_entities>>

\* process_packet(create_entity): an entity of the packet without a mapping
\* is created, owned by the client, and mapped; then the pools are imported
\* without check_ownership.  (The registry has one more entity to give.)
SrvCreateEntity ==
    /\ received < MaxPackets
    /\ \E c \in Clients :
       \E entities \in {E \in SUBSET {r \in RemIds(c) :
                                  \/ has_rem(entity_map[c], r)
                                  \/ /\ r = Rem(c, MaxSrvEntities)
                                     /\ MaxSrvEntities \notin valid_entities} :
                            Cardinality(E) <= MaxPoolSize} :
       \E pool \in Pools(c) :
          LET fresh == {r \in entities : ~has_rem(entity_map[c], r)}
              emap == entity_map[c] \cup {<<r, MaxSrvEntities>> : r \in fresh}
          IN  /\ valid_entities' =
                     valid_entities \cup {MaxSrvEntities : r \in fresh}
              /\ entity_owner' =
                     [e \in SrvEntities |->
                         IF fresh # {} /\ e = MaxSrvEntities THEN c
                         ELSE entity_owner[e]]
              /\ entity_map' = [entity_map EXCEPT ![c] = emap]
              /\ Applied(c, "create_entity", pool, emap,
                         import_pool(c, pool, emap, FALSE))
    /\ UNCHANGED <<OutsideOwner, islands>>

\* update_network_server(): update_island_entity_owners().
SrvUpdateIslandOwners ==
    /\ \E ends_equal \in BOOLEAN :
       \E stray \in Clients \cup {Null} :
          islands' = [i \in IslandIds |->
                         [islands[i] EXCEPT !.owner =
                             island_owner_after(islands[i], ends_equal,
                                                stray)]]
    /\ UNCHANGED <<OutsideOwner, entity_owner, entity_map, comp_value,
                   last_import, valid_entities, received>>

\* Four entities in two islands: body 1 of client 1, the unowned static
\* body 2, constraint 3 and body 4 of client 2.  An island is constructed with a null
\* owner.  A client has a mapping for each entity it owns and, when they are
\* in its AABB of interest, for the others.
InitOwner ==
    /\ WorkerAtConstruction
    /\ now = 0
    /\ valid_entities = 1..(MaxSrvEntities - 1)
    /\ \E o3 \in Clients \cup {Null} :
          entity_owner = [e \in SrvEntities |->
                             CASE e = 1 -> 1
                               [] e = 3 -> o3
                               [] e = 4 -> 2
                               [] OTHER -> Null]
    /\ \E n1 \in SUBSET {1, 2} : \E e1 \in SUBSET {3} :
       \E n2 \in {{4}, {2, 4}} :
          /\ n1 \cup e1 # {}
          /\ islands = [i \in IslandIds |->
                        IF i = 1
                        THEN [nodes |-> n1, edges |-> e1, owner |-> Null]
                        ELSE [nodes |-> n2, edges |-> {}, owner |-> Null]]
    /\ \E in_aabb \in BOOLEAN :
          entity_map = [c \in Clients |->
                           {<<Rem(c, e), e>> : e \in
                               {e \in valid_entities :
                                   entity_owner[e] = c \/ in_aabb}}]
    /\ comp_value = [e \in SrvEntities |-> 0]
    /\ last_import = NoImport
    /\ received = 0
    /\ aabboi = <<>>
    /\ aabb_sent = <<>>
    /\ packet_queue = <<>>
    /\ processed = <<>>
    /\ last_snapshot_time = <<>>
    /\ last_published = <<>>
    /\ exportable = <<>>
    /\ NoClient

NextOwner ==
    \/ SrvTransientSnapshot
    \/ SrvGeneralSnapshot
    \/ SrvCreateEntity
    \/ SrvUpdateIslandOwners

SpecOwner == InitOwner /\ [][NextOwner]_vars

(***************************************************************************)
(* C16.  The server applies a non-input component value received from      *)
(* client C (in a transient_snapshot, general_snapshot or create_entity    *)
(* packet) to an entity only if every island in which that entity resides  *)
(* is owned by C; otherwise the update is discarded and the entity's state *)
(* is the same as if the packet had not been sent.                         *)
(***************************************************************************)
C16_AppliedOnlyIfOwned ==
    /\ last_import.applied \subseteq last_import.owned
    /\ last_import.discarded \cap last_import.applied = {}

\* The owner update_island_entity_owners() is to give an island.
ExpectedOwner(isle) ==
    LET owners == {entity_owner[e] : e \in isle.nodes \cup isle.edges}
                      \ {Null}
    IN  IF Cardinality(owners) = 1 THEN CHOOSE o \in owners : TRUE ELSE Null

(***************************************************************************)
(* C17.  After update_island_entity_owners, an island's owner is a client  *)
(* C if and only if at least one entity among the island's nodes and edges *)
(* has a non-null entity_owner and every such entity is owned by C; in     *)
(* every other case (no owned entity, or two different owning clients) the *)
(* island's owner is null.  This holds for every island, including islands *)
(* with an empty node set or an empty edge set.                            *)
(***************************************************************************)
C17_OwnerIsTheSingleOwner ==
    [][SrvUpdateIslandOwners =>
          \A i \in IslandIds : islands'[i].owner = ExpectedOwner(islands[i])]_vars

(***************************************************************************)
(* SpecQueue: one client's packet queue on the server (server_side.cpp).   *)
(* server_receive_packet() enqueues a timed packet and processes any other *)
(* at once; every server tick server_process_timed_packets() processes the *)
(* packets that are due.                                                   *)
(***************************************************************************)
MaxQueuePackets == 4    \* packets the server receives in one run
MaxQueueTime == 3       \* the clock stops here
MaxStamp == 2           \* packet.timestamp is in 0..MaxStamp
TimeDelta == 1          \* clock_sync.time_delta
RoundTripTime == 2      \* remote_client::round_trip_time

\* The index enqueue_packet()'s find_if stops at: the first packet of the
\* queue with a timestamp after packet_timestamp, or the end.
RECURSIVE find_if_later(_, _, _)
find_if_later(queue, packet_timestamp, i) ==
    IF i > Len(queue) THEN i
    ELSE IF queue[i].timestamp > packet_timestamp THEN i
    ELSE find_if_later(queue, packet_timestamp, i + 1)

\* The mutant: find_if stops at the first timestamp that is not before.
RECURSIVE find_if_not_before(_, _, _)
find_if_not_before(queue, packet_timestamp, i) ==
    IF i > Len(queue) THEN i
    ELSE IF queue[i].timestamp >= packet_timestamp THEN i
    ELSE find_if_not_before(queue, packet_timestamp, i + 1)

enqueue_packet_unstable(queue, packet, synced, time) ==
    LET packet_timestamp == IF synced THEN packet.timestamp + TimeDelta
                            ELSE time - RoundTripTime \div 2
        insert_it == find_if_not_before(queue, packet_timestamp, 1)
    IN  SubSeq(queue, 1, insert_it - 1)
            \o <<[packet EXCEPT !.timestamp = packet_timestamp]>>
            \o SubSeq(queue, insert_it, Len(queue))

\* enqueue_packet(): the adjusted timestamp is the packet's own shifted by
\* the clock difference once the clocks are synchronised (clock_sync.count >
\* 0), and else the time of receipt less half a round trip.
enqueue_packet(queue, packet, synced, time) ==
    LET packet_timestamp == IF synced THEN packet.timestamp + TimeDelta
                            ELSE time - RoundTripTime \div 2
        insert_it == find_if_later(queue, packet_timestamp, 1)
    IN  SubSeq(queue, 1, insert_it - 1)
            \o <<[packet EXCEPT !.timestamp = packet_timestamp]>>
            \o SubSeq(queue, insert_it, Len(queue))

\* The loop of server_process_timed_packets(): the index of the first packet
\* with it->timestamp > time, or the end.
RECURSIVE first_not_due(_, _, _)
first_not_due(queue, time, it) ==
    IF it > Len(queue) THEN it
    ELSE IF queue[it].timestamp > time THEN it
    ELSE first_not_due(queue, time, it + 1)

OutsideQueue == <<workerv, ownerv, aabbv, snapv, clientv>>

\* The clock advances.
QueueTick ==
    /\ now < MaxQueueTime
    /\ now' = now + 1
    /\ UNCHANGED <<OutsideQueue, queuev>>

\* server_receive_packet(): a packet arrives.
SrvReceivePacket ==
    /\ received < MaxQueuePackets
    /\ received' = received + 1
    /\ \E timed \in BOOLEAN : \E stamp \in 0..MaxStamp : \E synced \in BOOLEAN :
          LET packet == [id |-> received + 1, timed |-> timed,
                         timestamp |-> stamp]
          IN  IF timed
              THEN /\ packet_queue' =
                          enqueue_packet(packet_queue, packet, synced, now)
                   /\ UNCHANGED processed
              ELSE /\ processed' =
                          Append(processed, [on |-> "receipt", time |-> now,
                                             packets |-> <<packet>>])
                   /\ UNCHANGED packet_queue
    /\ UNCHANGED <<OutsideQueue, now>>

\* update_network_server(): server_process_timed_packets(registry, time).
SrvProcessTimedPackets ==
    /\ LET it == first_not_due(packet_queue, now, 1)
       IN  /\ it > 1
           /\ processed' =
                  Append(processed, [on |-> "tick", time |-> now,
                                     packets |-> SubSeq(packet_queue, 1, it - 1)])
           /\ packet_queue' = SubSeq(packet_queue, it, Len(packet_queue))
    /\ UNCHANGED <<OutsideQueue, now, received>>

InitQueue ==
    /\ WorkerAtConstruction
    /\ now = 0
    /\ entity_owner = <<>>
    /\ islands = <<>>
    /\ entity_map = <<>>
    /\ comp_value = <<>>
    /\ last_import = NoImport
    /\ valid_entities = {}
    /\ aabboi = <<>>
    /\ aabb_sent = <<>>
    /\ packet_queue = <<>>
    /\ processed = <<>>
    /\ received = 0
    /\ last_snapshot_time = <<>>
    /\ last_published = <<>>
    /\ exportable = <<>>
    /\ NoClient

NextQueue ==
    \/ QueueTick
    \/ SrvReceivePacket
    \/ SrvProcessTimedPackets

SpecQueue == InitQueue /\ [][NextQueue]_vars

\* Non-decreasing timestamps, equal timestamps in arrival order.
InTimestampOrder(packets) ==
    \A i, j \in 1..Len(packets) :
        i < j => \/ packets[i].timestamp < packets[j].timestamp
                 \/ /\ packets[i].timestamp = packets[j].timestamp
                    /\ packets[i].id < packets[j].id

\* The packets process_packet() has run for, with multiplicity.
RECURSIVE ProcessedPackets(_)
ProcessedPackets(batches) ==
    IF batches = <<>> THEN <<>>
    ELSE Head(batches).packets \o ProcessedPackets(Tail(batches))

TimesProcessed(id) ==
    Cardinality({i \in 1..Len(ProcessedPackets(processed)) :
                    ProcessedPackets(processed)[i].id = id})

TimesQueued(id) ==
    Cardinality({i \in 1..Len(packet_queue) : packet_queue[i].id = id})

(***************************************************************************)
(* C18.  Each client's server-side packet_queue is always sorted by        *)
(* non-decreasing adjusted timestamp; a timed packet is never processed on *)
(* receipt, is processed exactly once in a server tick whose time is at or *)
(* after its adjusted timestamp, in non-decreasing timestamp order with    *)
(* equal timestamps in arrival order, and is then removed; non-timed       *)
(* packets are processed immediately on receipt.  (The order is that of    *)
(* the packets one tick processes; a tick leaves no due packet behind.)    *)
(***************************************************************************)
C18_QueueDiscipline ==
    /\ [](/\ InTimestampOrder(packet_queue)
          /\ \A i \in 1..Len(packet_queue) : packet_queue[i].timed
          /\ \A id \in 1..received : TimesProcessed(id) + TimesQueued(id) = 1
          /\ \A b \in 1..Len(processed) :
                IF processed[b].on = "receipt"
                THEN \A i \in 1..Len(processed[b].packets) :
                        ~processed[b].packets[i].timed
                ELSE /\ InTimestampOrder(processed[b].packets)
                     /\ \A i \in 1..Len(processed[b].packets) :
                           /\ processed[b].packets[i].timed
                           /\ processed[b].packets[i].timestamp
                                  <= processed[b].time)
    /\ [][/\ SrvReceivePacket =>
                \/ /\ processed' = processed
                   /\ \E i \in 1..Len(packet_queue') :
                         packet_queue'[i].id = received'
                \/ /\ Len(processed') = Len(processed) + 1
                   /\ processed'[Len(processed')].on = "receipt"
                   /\ processed'[Len(processed')].time = now
                   /\ processed'[Len(processed')].packets[1].id = received'
                   /\ packet_queue' = packet_queue
          /\ SrvProcessTimedPackets =>
                /\ processed'[Len(processed')].time = now
                /\ \A i \in 1..Len(packet_queue') :
                      packet_queue'[i].timestamp > now]_vars

\* One tick has processed two timed packets of the same adjusted timestamp
\* and left a later one in the queue, and a packet that is not timed has
\* been processed on receipt.
C18_Witness ==
    /\ packet_queue # <<>>
    /\ \E b, c \in 1..Len(processed) :
          /\ processed[b].on = "receipt"
          /\ processed[c].on = "tick"
          /\ Len(processed[c].packets) >= 2
          /\ processed[c].packets[1].timestamp = processed[c].packets[2].timestamp

(***************************************************************************)
(* SpecAabb: the packets the server sends a client when entities enter or  *)
(* leave its AABB of interest (server_side.cpp).                           *)
(***************************************************************************)
MaxAabbEntities == 3    \* the entities that enter and leave

AabbEntities == 1..MaxAabbEntities

NoPending == [create_entities |-> {}, destroy_entities |-> {}]

NoPackets == [client |-> Null, create |-> {}, destroy |-> {},
              entered |-> {}, exited |-> {}]

\* entity_map::has_loc.
has_loc(emap, e) == \E pr \in emap : pr[2] = e

\* The mutant: every entity that left goes in the packet.
destroy_packet_entities_all(client_entity, pending) ==
    pending

\* process_aabb_of_interest_destroyed_entities(): packet.entities.  An
\* entity without an entity_owner has the owner Null here.
destroy_packet_entities(client_entity, pending) ==
    {entity \in pending :
        \/ entity \notin valid_entities
        \/ entity_owner[entity] = Null
        \/ entity_owner[entity] # client_entity}

\* process_aabb_of_interest_created_entities(): packet.entities.
create_packet_entities(client_entity, pending) ==
    {entity \in pending :
        \/ entity_owner[entity] = Null
        \/ entity_owner[entity] # client_entity}

OutsideAabb == <<workerv, now, islands, comp_value, last_import, queuev, snapv,
                 clientv>>

\* update_aabbs_of_interest(): entities enter and leave the AABB of interest
\* of a client.  Those that enter exist; one that leaves may have been
\* destroyed.
AabbUpdate ==
    /\ \A c \in Clients : aabboi[c] = NoPending
    /\ \E c \in Clients :
       \E entered \in SUBSET (AabbEntities \cap valid_entities) :
       \E exited \in SUBSET (AabbEntities \ entered) :
          /\ entered \cup exited # {}
          /\ aabboi' = [aabboi EXCEPT ![c] =
                           [create_entities |-> entered,
                            destroy_entities |-> exited]]
    /\ UNCHANGED <<OutsideAabb, entity_owner, entity_map, valid_entities,
                   aabb_sent>>

\* process_aabbs_of_interest(), for one client:
\* process_aabb_of_interest_destroyed_entities() and then
\* process_aabb_of_interest_created_entities().  A packet without entities
\* is not published.
SrvProcessAabbOfInterest(c) ==
    LET exited == aabboi[c].destroy_entities
        entered == aabboi[c].create_entities
        destroyed == destroy_packet_entities(c, exited)
        created == create_packet_entities(c, entered)
    IN  /\ entered \cup exited # {}
        /\ entity_map' = [entity_map EXCEPT ![c] =
                             {pr \in entity_map[c] : pr[2] \notin destroyed}]
        /\ aabboi' = [aabboi EXCEPT ![c] = NoPending]
        /\ aabb_sent' = [client |-> c, create |-> created,
                         destroy |-> destroyed, entered |-> entered,
                         exited |-> exited]
        /\ UNCHANGED <<OutsideAabb, entity_owner, valid_entities>>

\* process_packet(destroy_entity): a client destroys an entity it owns.
SrvDestroyEntity ==
    /\ \E c \in Clients : \E e \in AabbEntities :
          /\ has_rem(entity_map[c], Rem(c, e))
          /\ LET local_entity == remloc(entity_map[c], Rem(c, e))
             IN  /\ local_entity \in valid_entities
                 /\ entity_owner[local_entity] = c
                 /\ valid_entities' = valid_entities \ {local_entity}
                 /\ entity_owner' = [entity_owner EXCEPT ![local_entity] = Null]
                 /\ entity_map' = [entity_map EXCEPT ![c] =
                                      {pr \in entity_map[c] : pr[1] # Rem(c, e)}]
    /\ UNCHANGED <<OutsideAabb, aabboi, aabb_sent>>

\* Entity 1 of client 1, entity 2 of client 2 and the unowned entity 3; each
\* client has a mapping for the entities it owns and for some others.
InitAabb ==
    /\ WorkerAtConstruction
    /\ now = 0
    /\ valid_entities = AabbEntities
    /\ entity_owner = [e \in SrvEntities |-> IF e \in Clients THEN e ELSE Null]
    /\ \E known \in SUBSET AabbEntities :
          entity_map = [c \in Clients |->
                           {<<Rem(c, e), e>> : e \in
                               {e \in AabbEntities :
                                   entity_owner[e] = c \/ e \in known}}]
    /\ aabboi = [c \in Clients |-> NoPending]
    /\ aabb_sent = NoPackets
    /\ islands = <<>>
    /\ comp_value = <<>>
    /\ last_import = NoImport
    /\ packet_queue = <<>>
    /\ processed = <<>>
    /\ received = 0
    /\ last_snapshot_time = <<>>
    /\ last_published = <<>>
    /\ exportable = <<>>
    /\ NoClient

NextAabb ==
    \/ AabbUpdate
    \/ \E c \in Clients : SrvProcessAabbOfInterest(c)
    \/ SrvDestroyEntity

SpecAabb == InitAabb /\ [][NextAabb]_vars

(***************************************************************************)
(* C19.  The create_entity and destroy_entity packets the server emits for *)
(* entities entering or leaving a client's AABB of interest never contain  *)
(* an entity owned by that client and contain every other entered or       *)
(* exited entity; after processing, the client's pending create and        *)
(* destroy sets are empty, and the server-side entity_map of that client   *)
(* holds no mapping for any entity listed in the destroy_entity packet.    *)
(***************************************************************************)
C19_AabbPackets ==
    [][\A c \in Clients :
          SrvProcessAabbOfInterest(c) =>
             /\ \A e \in aabb_sent'.create \cup aabb_sent'.destroy :
                   entity_owner[e] # c
             /\ \A e \in aabboi[c].create_entities :
                   entity_owner[e] # c => e \in aabb_sent'.create
             /\ \A e \in aabboi[c].destroy_entities :
                   entity_owner[e] # c => e \in aabb_sent'.destroy
             /\ aabb_sent'.create \subseteq aabboi[c].create_entities
             /\ aabb_sent'.destroy \subseteq aabboi[c].destroy_entities
             /\ aabboi'[c].create_entities = {}
             /\ aabboi'[c].destroy_entities = {}
             /\ \A e \in aabb_sent'.destroy : ~has_loc(entity_map'[c], e)]_vars

\* A client's own entity and two others, one of them destroyed, have left or
\* entered its AABB of interest; the packets hold the two others and the
\* mapping of the one that left is gone.
C19_Witness ==
    /\ aabb_sent.client # Null
    /\ aabb_sent.create # {}
    /\ aabb_sent.destroy # {}
    /\ \E e \in aabb_sent.entered \cup aabb_sent.exited :
          /\ entity_owner[e] = aabb_sent.client
          /\ e \notin aabb_sent.create \cup aabb_sent.destroy
    /\ \E e \in aabb_sent.destroy : e \notin valid_entities
    /\ aabboi[aabb_sent.client] = NoPending

(***************************************************************************)
(* SpecSnap: the rate of transient snapshots, on the client                *)
(* (client_side.cpp, maybe_publish_transient_snapshot) and on the server   *)
(* for one client (server_side.cpp,                                        *)
(* maybe_publish_client_transient_snapshot).                               *)
(***************************************************************************)
SnapInterval == 2       \* 1 / snapshot_rate, in units of time
MaxSnapTime == 12       \* the clock stops here

Ends == {"client", "server"}

\* Both functions: return when less than the interval has passed since
\* last_snapshot_time; else set last_snapshot_time, fill the packet, and
\* publish it when its pools are not empty.  The result is
\* last_snapshot_time and whether a packet was published.
maybe_publish(last, time, pools_not_empty) ==
    IF time - last < SnapInterval
    THEN [last_snapshot_time |-> last, published |-> FALSE]
    ELSE [last_snapshot_time |-> time, published |-> pools_not_empty]

OutsideSnap == <<workerv, ownerv, aabbv, queuev, clientv>>

\* What a call at a time leaves: the clock, last_snapshot_time, the time of
\* the packet it published, and whether it had anything to export.
Called(end, time, r, pools_not_empty) ==
    /\ now' = time
    /\ last_snapshot_time' =
           [last_snapshot_time EXCEPT ![end] = r.last_snapshot_time]
    /\ last_published' =
           [last_published EXCEPT ![end] = IF r.published THEN time ELSE @]
    /\ exportable' = [exportable EXCEPT ![end] = pools_not_empty]

\* The times a call may read from performance_time(): later than the last.
Later == {time \in (now + 1)..(now + SnapInterval) : time <= MaxSnapTime}

\* update_network_client(): maybe_publish_transient_snapshot().
ClientMaybePublishTransientSnapshot ==
    /\ \E time \in Later : \E pools_not_empty \in BOOLEAN :
          Called("client", time,
                 maybe_publish(last_snapshot_time["client"], time,
                               pools_not_empty),
                 pools_not_empty)
    /\ UNCHANGED OutsideSnap

\* process_aabbs_of_interest(): maybe_publish_client_transient_snapshot().
ServerMaybePublishTransientSnapshot ==
    /\ \E time \in Later : \E pools_not_empty \in BOOLEAN :
          Called("server", time,
                 maybe_publish(last_snapshot_time["server"], time,
                               pools_not_empty),
                 pools_not_empty)
    /\ UNCHANGED OutsideSnap

\* Nothing has been published; the first call is past the first interval.
InitSnap ==
    /\ WorkerAtConstruction
    /\ now = SnapInterval - 1
    /\ entity_owner = <<>>
    /\ islands = <<>>
    /\ entity_map = <<>>
    /\ comp_value = <<>>
    /\ last_import = NoImport
    /\ valid_entities = {}
    /\ aabboi = <<>>
    /\ aabb_sent = <<>>
    /\ packet_queue = <<>>
    /\ processed = <<>>
    /\ received = 0
    /\ last_snapshot_time = [end \in Ends |-> 0]
    /\ last_published = [end \in Ends |-> NoTimestamp]
    /\ exportable = [end \in Ends |-> FALSE]
    /\ NoClient

NextSnap ==
    \/ ClientMaybePublishTransientSnapshot
    \/ ServerMaybePublishTransientSnapshot

SpecSnap == InitSnap /\ [][NextSnap]_vars

\* At the time of the call the interval has passed since the end last
\* published a snapshot.
IntervalElapsed(end) ==
    \/ last_published[end] = NoTimestamp
    \/ now' - last_published[end] >= SnapInterval

(***************************************************************************)
(* C20.  Transient snapshots are rate-limited on both ends: any two        *)
(* consecutive transient_snapshot packets published by the client, or by   *)
(* the server to one client, are at least 1/snapshot_rate apart in time,   *)
(* and a tick at which that interval has elapsed and at least one          *)
(* exportable transient component exists does publish one.                 *)
(***************************************************************************)
C20_RateLimited ==
    [][\A end \in Ends :
          (IF end = "client" THEN ClientMaybePublishTransientSnapshot
                             ELSE ServerMaybePublishTransientSnapshot) =>
             /\ last_published'[end] # last_published[end]
                    => IntervalElapsed(end)
             /\ (IntervalElapsed(end) /\ exportable'[end])
                    => last_published'[end] = now']_vars

(***************************************************************************)
(* SpecReq: the server answering an entity_request (server_side.cpp,       *)
(* process_packet(entity_request)).  srv_req holds the server's registry   *)
(* (valid, networked, the island each entity resides in, owner), the       *)
(* request and the response.                                               *)
(***************************************************************************)
MaxReqEntities == 3     \* bodies 1 and 2, and constraint MaxReqEntities

ReqEntities == 1..MaxReqEntities

\* The client entity of client c, an entity of the server's registry.
ClientEntity(c) == 10 + c

\* collect_islands_from_residents(): the islands the entities reside in.
collect_islands_from_residents(resident, entities) ==
    {resident[e] : e \in entities} \ {Null}

\* island.nodes and island.edges: the constraint is the edge.
IslandNodes(resident, isle) ==
    {e \in ReqEntities : resident[e] = isle /\ e < MaxReqEntities}

IslandEdges(resident, isle) ==
    {e \in ReqEntities : resident[e] = isle /\ e = MaxReqEntities}

\* process_packet(entity_request): res.entities.
entity_response(r, requested) ==
    LET valid_set == {e \in requested : e \in r.valid}
        island_entities == collect_islands_from_residents(r.resident, valid_set)
        all_entities ==
            UNION {{e \in IslandNodes(r.resident, isle)
                          \cup IslandEdges(r.resident, isle) :
                       e \in r.networked} : isle \in island_entities}
        client_entities ==
            {ClientEntity(r.owner[e]) : e \in {e \in all_entities :
                                                  r.owner[e] # Null}}
    IN  all_entities \cup client_entities

OutsideReq == <<workerv, now, ownerv, aabbv, queuev, snapv, cli_map, cli_extr,
                cli_dirty, net_graph, wrk_delta, pkt_pools,
    latev>>

\* server_receive_packet(): an entity_request arrives and is answered.  The
\* response is published when it holds an entity.
SrvEntityRequest ==
    /\ \E requested \in SUBSET ReqEntities \ {{}} :
          LET entities == entity_response(srv_req, requested)
          IN  srv_req' = [srv_req EXCEPT !.request = requested,
                                         !.response = entities,
                                         !.sent = (entities # {}),
                                         !.answered = @ + 1]
    /\ srv_req.answered < 1
    /\ UNCHANGED OutsideReq

\* A registry: an entity is valid or not; a valid one may be networked,
\* reside in one of two islands and have an owner.
InitReq ==
    /\ WorkerAtConstruction
    /\ now = 0
    /\ ServerAtRest
    /\ RestBut("srv_req")
    /\ \E valid \in SUBSET ReqEntities :
       \E networked \in SUBSET valid :
       \E resident \in [ReqEntities -> {Null} \cup IslandIds] :
       \E owner \in [ReqEntities -> {Null} \cup Clients] :
          /\ \A e \in ReqEntities \ valid :
                resident[e] = Null /\ owner[e] = Null
          /\ srv_req = [valid |-> valid, networked |-> networked,
                        resident |-> resident, owner |-> owner,
                        request |-> {}, response |-> {}, sent |-> FALSE,
                        answered |-> 0]

NextReq == SrvEntityRequest

SpecReq == InitReq /\ [][NextReq]_vars

(***************************************************************************)
(* C21.  For an entity_request from a client, the server's entity_response *)
(* contains every valid requested entity R together with all networked     *)
(* nodes and edges of every island R resides in (plus the client entities  *)
(* of their owners), with full component pools; no response is sent when   *)
(* the resulting entity list is empty.                                     *)
(***************************************************************************)
C21_ResponseHoldsRequested ==
    srv_req.answered > 0 =>
        /\ \A R \in srv_req.request \cap srv_req.valid :
              /\ R \in srv_req.response
              /\ \A e \in ReqEntities :
                    (/\ srv_req.resident[R] # Null
                     /\ srv_req.resident[e] = srv_req.resident[R]
                     /\ e \in srv_req.networked)
                        => /\ e \in srv_req.response
                           /\ srv_req.owner[e] # Null =>
                                 ClientEntity(srv_req.owner[e])
                                     \in srv_req.response
        /\ srv_req.sent <=> srv_req.response # {}

(***************************************************************************)
(* SpecResp: the client asking for the entities it does not know and       *)
(* importing the server's entity_response (client_side.cpp).  cli_map      *)
(* holds ctx.entity_map, the registry (valid entities, networked_tag) and  *)
(* what the last handler has sent.                                         *)
(***************************************************************************)
MaxRemote == 3          \* the server's entities the packets speak of
MaxClientSteps == 3     \* packets the client handles in one run

\* The server's entities, as the client's packets name them.
RemoteEntities == {20 + e : e \in 1..MaxRemote}

\* The sequences without repetition over a set.
RECURSIVE Orders(_)
Orders(S) ==
    IF S = {} THEN {<<>>}
    ELSE UNION {{<<x>> \o o : o \in Orders(S \ {x})} : x \in S}

Range(f) == {f[i] : i \in DOMAIN f}

\* The first loop of process_packet(entity_response): an entity without a
\* mapping gets a new local entity and a mapping.
RECURSIVE create_unmapped(_, _, _)
create_unmapped(entities, emap, next) ==
    IF entities = <<>> THEN [entity_map |-> emap, next |-> next, pairs |-> {}]
    ELSE IF has_rem(emap, Head(entities))
         THEN create_unmapped(Tail(entities), emap, next)
         ELSE LET r == create_unmapped(Tail(entities),
                                       emap \cup {<<Head(entities), next>>},
                                       next + 1)
              IN  [r EXCEPT !.pairs = @ \cup {<<Head(entities), next>>}]

\* The last loop of process_packet(entity_response):
\* registry.emplace<networked_tag>(local_entity) for every entity of the
\* response.  emplace requires that the entity does not have the component;
\* where it has, a build with assertions stops there (aborts), any other
\* goes on with a storage that holds the entity twice.
RECURSIVE emplace_networked_tag(_, _, _, _)
emplace_networked_tag(entities, emap, networked, aborts) ==
    IF entities = <<>>
    THEN [networked |-> networked, failed |-> FALSE, aborted |-> FALSE]
    ELSE LET local_entity == remloc(emap, Head(entities))
         IN  IF local_entity \in networked
             THEN IF aborts
                  THEN [networked |-> networked, failed |-> TRUE,
                        aborted |-> TRUE]
                  ELSE [emplace_networked_tag(Tail(entities), emap, networked,
                                              aborts)
                            EXCEPT !.failed = TRUE]
             ELSE emplace_networked_tag(Tail(entities), emap,
                                        networked \cup {local_entity}, aborts)

\* collect_unknown_entities(): the entities of a pool without a local
\* counterpart; a mapping to an entity that is no longer valid is erased.
collect_unknown_entities(c, remote_entities) ==
    LET stale == {r \in remote_entities :
                     has_rem(c.entity_map, r)
                         /\ remloc(c.entity_map, r) \notin c.valid}
    IN  [entity_map |-> {pr \in c.entity_map : pr[1] \notin stale},
         unknown_entities |->
             {r \in remote_entities : ~has_rem(c.entity_map, r)} \cup stale]

OutsideResp == <<workerv, now, ownerv, aabbv, queuev, snapv, srv_req, cli_extr,
                 cli_dirty, net_graph, wrk_delta, pkt_pools,
    latev>>

\* process_packet(entity_response).
CliEntityResponse ==
    /\ cli_map.steps < MaxClientSteps
    /\ ~cli_map.aborted
    /\ \E E \in SUBSET RemoteEntities \ {{}} : \E entities \in Orders(E) :
       \E aborts \in BOOLEAN :
          LET made == create_unmapped(entities, cli_map.entity_map,
                                      cli_map.next)
              tagged == emplace_networked_tag(entities, made.entity_map,
                                              cli_map.networked, aborts)
          IN  cli_map' =
                  [cli_map EXCEPT
                      !.entity_map = made.entity_map,
                      !.next = made.next,
                      !.valid = @ \cup {pr[2] : pr \in made.pairs},
                      !.networked = tagged.networked,
                      !.failed = tagged.failed,
                      !.corrupt = @ \/ (tagged.failed /\ ~tagged.aborted),
                      !.aborted = tagged.aborted,
                      !.emap_sent = IF tagged.aborted THEN {} ELSE made.pairs,
                      !.response = entities,
                      !.answered = @ \cup {pr[1] : pr \in made.pairs},
                      !.requested = {},
                      !.steps = @ + 1]
    /\ UNCHANGED OutsideResp

\* process_packet(general_snapshot) and process_packet(transient_snapshot):
\* request_unknown_entities_in_pools().
CliSnapshot ==
    /\ cli_map.steps < MaxClientSteps
    /\ ~cli_map.aborted
    /\ \E remote_entities \in SUBSET RemoteEntities \ {{}} :
          LET r == collect_unknown_entities(cli_map, remote_entities)
          IN  cli_map' = [cli_map EXCEPT
                             !.entity_map = r.entity_map,
                             !.requested = r.unknown_entities,
                             !.failed = FALSE,
                             !.emap_sent = {},
                             !.response = <<>>,
                             !.steps = @ + 1]
    /\ UNCHANGED OutsideResp

\* A client that knows nothing of the server's entities yet.
InitResp ==
    /\ WorkerAtConstruction
    /\ now = 0
    /\ ServerAtRest
    /\ RestBut("cli_map")
    /\ cli_map = [entity_map |-> {}, next |-> 1, valid |-> {},
                  networked |-> {}, failed |-> FALSE, corrupt |-> FALSE,
                  aborted |-> FALSE, emap_sent |-> {}, response |-> <<>>,
                  answered |-> {}, requested |-> {}, steps |-> 0]

NextResp ==
    \/ CliEntityResponse
    \/ CliSnapshot

SpecResp == InitResp /\ [][NextResp]_vars

(***************************************************************************)
(* C22.  After the client processes the entity_response for a previously   *)
(* unknown remote entity R, its entity_map maps R to a valid local entity  *)
(* carrying networked_tag, an update_entity_map with the new pairs is sent *)
(* to the server, and every later snapshot referencing R produces no       *)
(* further entity_request for R.                                           *)
(***************************************************************************)
C22_ResponseInstallsEntity ==
    /\ [](cli_map.requested \cap cli_map.answered = {})
    /\ [][CliEntityResponse =>
             \A R \in Range(cli_map'.response) :
                ~has_rem(cli_map.entity_map, R) =>
                   /\ has_rem(cli_map'.entity_map, R)
                   /\ remloc(cli_map'.entity_map, R) \in cli_map'.valid
                   /\ remloc(cli_map'.entity_map, R) \in cli_map'.networked
                   /\ <<R, remloc(cli_map'.entity_map, R)>>
                          \in cli_map'.emap_sent]_vars

(***************************************************************************)
(* C23.  Duplicate entity requests are harmless: processing an             *)
(* entity_response whose entities are already mapped on the client (a      *)
(* duplicate response, or island members the client already knew) creates  *)
(* no entity, sends no update_entity_map, fails no precondition, and       *)
(* leaves the client's registry and entity_map as they were after the      *)
(* first response.                                                         *)
(***************************************************************************)
C23_DuplicateResponseHarmless ==
    [][(/\ CliEntityResponse
        /\ \A R \in Range(cli_map'.response) : has_rem(cli_map.entity_map, R))
          => /\ cli_map'.next = cli_map.next
             /\ cli_map'.emap_sent = {}
             /\ ~cli_map'.failed
             /\ ~cli_map'.corrupt
             /\ cli_map'.entity_map = cli_map.entity_map
             /\ cli_map'.valid = cli_map.valid
             /\ cli_map'.networked = cli_map.networked]_vars

(***************************************************************************)
(* SpecExtr: the client handling a transient_snapshot and draining its     *)
(* extrapolation jobs (client_side.cpp).  cli_extr holds the setting       *)
(* extrapolation_enabled, the remote entities the entity_map knows, the    *)
(* valid local entities and the island each resides in,                    *)
(* ctx.extrapolation_jobs, and what the last handler has done.             *)
(***************************************************************************)
MaxConcurrentExtrapolations == 2    \* max_concurrent_extrapolations
MaxExtrSteps == 4       \* packets handled and client ticks in one run
MaxExtrEntities == 2    \* entities of the server

\* The server's entities, as the client receives them.
ExtrRemote == {20 + e : e \in 1..MaxExtrEntities}

\* The local entity the entity_map gives a known remote entity.
Loc(r) == r - 20

\* The entities of a snapshot without a valid local counterpart
\* (request_unknown_entities_in_pools).
unknown_in(x, remote_entities) ==
    {r \in remote_entities : r \notin x.known \/ Loc(r) \notin x.valid}

\* snapshot.convert_remloc() and get_entities(): the local entities of the
\* snapshot; an entity without a mapping has none.
convert_remloc(x, remote_entities) ==
    {Loc(r) : r \in {r \in remote_entities :
                        r \in x.known /\ Loc(r) \in x.valid}}

\* The mutant: one job more than the maximum.
may_extrapolate_late(enabled, contains_unknown_entities, jobs_size) ==
    /\ enabled
    /\ ~contains_unknown_entities
    /\ ~(jobs_size > MaxConcurrentExtrapolations)

\* process_packet(transient_snapshot): whether the three returns before the
\* job is made are passed.
may_extrapolate(enabled, contains_unknown_entities, jobs_size) ==
    /\ enabled
    /\ ~contains_unknown_entities
    /\ ~(jobs_size >= MaxConcurrentExtrapolations)

\* process_finished_extrapolation_jobs(): remove_if over the jobs in order,
\* apply_extrapolation_result() for each one that is finished.  done is what
\* the jobs before have left.  EDYN_ASSERT(!island_entities.empty()) ends
\* the program where assertions are compiled in (aborts) and is nothing
\* elsewhere.
RECURSIVE drain_jobs(_, _, _, _)
drain_jobs(x, jobs, aborts, done) ==
    IF jobs = <<>> THEN done
    ELSE LET job == Head(jobs)
             entities == job.entities \cap x.valid
             island_entities == collect_islands_from_residents(x.resident, entities)
         IN  IF ~job.finished
             THEN drain_jobs(x, Tail(jobs), aborts,
                             [done EXCEPT !.kept = Append(@, job)])
             ELSE IF island_entities = {} /\ aborts
             THEN [done EXCEPT !.failed = TRUE, !.aborted = TRUE,
                               !.kept = @ \o jobs]
             ELSE drain_jobs(x, Tail(jobs), aborts,
                     [done EXCEPT
                         !.failed = @ \/ island_entities = {},
                         !.forwarded = @ \cup {<<job.id, i>> :
                                                  i \in island_entities},
                         !.woken = @ \cup island_entities,
                         !.signals = @ \o (IF job.terminated_early
                                           THEN <<job.id>> ELSE <<>>),
                         !.applied = Append(@, job.id)])

OutsideExtr == <<workerv, now, ownerv, aabbv, queuev, snapv, srv_req, cli_map,
                 cli_dirty, net_graph, wrk_delta, pkt_pools,
    latev>>

\* What every handler starts from.
ExtrStep(x) ==
    [x EXCEPT !.steps = @ + 1, !.forwarded = {}, !.woken = {}, !.signals = <<>>,
              !.failed = FALSE, !.snapshot = {}, !.last = "none"]

\* process_packet(transient_snapshot).
CliTransientSnapshot ==
    /\ cli_extr.steps < MaxExtrSteps
    /\ ~cli_extr.aborted
    /\ \E remote_entities \in SUBSET ExtrRemote \ {{}} :
       \E aborts \in BOOLEAN :
          LET x == [ExtrStep(cli_extr) EXCEPT !.snapshot = remote_entities]
              contains_unknown_entities ==
                  unknown_in(cli_extr, remote_entities) # {}
              entities == convert_remloc(cli_extr, remote_entities)
              island_entities == collect_islands_from_residents(cli_extr.resident, entities)
          IN  IF ~cli_extr.enabled
              THEN \* snap_to_transient_snapshot()
                   cli_extr' =
                       [x EXCEPT !.last = "snap",
                                 !.failed = (island_entities = {}),
                                 !.aborted = (island_entities = {} /\ aborts),
                                 !.forwarded = {<<0, i>> : i \in island_entities},
                                 !.woken = island_entities]
              ELSE IF may_extrapolate(cli_extr.enabled,
                                      contains_unknown_entities,
                                      Len(cli_extr.jobs))
              THEN cli_extr' =
                       [x EXCEPT !.last = "launched",
                                 !.next = @ + 1,
                                 !.jobs = Append(@,
                                     [id |-> cli_extr.next,
                                      entities |-> entities,
                                      finished |-> FALSE,
                                      terminated_early |-> FALSE])]
              ELSE cli_extr' = [x EXCEPT !.last = "dropped"]
    /\ UNCHANGED OutsideExtr

\* An extrapolation job finishes, in time or not.
ExtrJobFinishes ==
    /\ ~cli_extr.aborted
    /\ \E i \in 1..Len(cli_extr.jobs) : \E early \in BOOLEAN :
          /\ ~cli_extr.jobs[i].finished
          /\ cli_extr' = [cli_extr EXCEPT
                             !.jobs[i].finished = TRUE,
                             !.jobs[i].terminated_early = early]
    /\ UNCHANGED OutsideExtr

\* update_network_client(): process_finished_extrapolation_jobs().
CliProcessFinishedExtrapolationJobs ==
    /\ cli_extr.steps < MaxExtrSteps
    /\ ~cli_extr.aborted
    /\ \E j \in 1..Len(cli_extr.jobs) : cli_extr.jobs[j].finished
    /\ \E aborts \in BOOLEAN :
          LET x == ExtrStep(cli_extr)
              r == drain_jobs(cli_extr, cli_extr.jobs, aborts,
                              [kept |-> <<>>, forwarded |-> {}, woken |-> {},
                               signals |-> <<>>, applied |-> <<>>,
                               failed |-> FALSE, aborted |-> FALSE])
          IN  cli_extr' = [x EXCEPT !.last = "drained",
                                    !.jobs = r.kept,
                                    !.forwarded = r.forwarded,
                                    !.woken = r.woken,
                                    !.signals = r.signals,
                                    !.applied = @ \o r.applied,
                                    !.failed = r.failed,
                                    !.aborted = r.aborted]
    /\ UNCHANGED OutsideExtr

\* process_packet(destroy_entity): the server has destroyed an entity.
CliDestroyEntity ==
    /\ cli_extr.steps < MaxExtrSteps
    /\ ~cli_extr.aborted
    /\ \E r \in cli_extr.known :
          cli_extr' = [ExtrStep(cli_extr) EXCEPT
                          !.last = "destroyed",
                          !.known = @ \ {r},
                          !.valid = @ \ {Loc(r)},
                          !.resident[Loc(r)] = Null]
    /\ UNCHANGED OutsideExtr

\* The client knows some of the server's entities; each of them resides in
\* an island or in none.
InitExtr ==
    /\ WorkerAtConstruction
    /\ now = 0
    /\ ServerAtRest
    /\ RestBut("cli_extr")
    /\ \E enabled \in BOOLEAN : \E known \in SUBSET ExtrRemote :
       \E resident \in [1..MaxExtrEntities -> {Null} \cup IslandIds] :
          /\ \A e \in 1..MaxExtrEntities : (20 + e) \notin known => resident[e] = Null
          /\ cli_extr = [enabled |-> enabled, known |-> known,
                         valid |-> {Loc(r) : r \in known},
                         resident |-> resident, jobs |-> <<>>, next |-> 1,
                         snapshot |-> {}, last |-> "none", forwarded |-> {},
                         woken |-> {}, signals |-> <<>>, applied |-> <<>>,
                         failed |-> FALSE, aborted |-> FALSE, steps |-> 0]

NextExtr ==
    \/ CliTransientSnapshot
    \/ ExtrJobFinishes
    \/ CliProcessFinishedExtrapolationJobs
    \/ CliDestroyEntity

SpecExtr == InitExtr /\ [][NextExtr]_vars

C25_SnapReachesAnIsland ==
    [][(CliTransientSnapshot /\ ~cli_extr.enabled) =>
          /\ ~cli_extr'.failed
          /\ cli_extr'.forwarded # {}
          /\ cli_extr'.woken = {f[2] : f \in cli_extr'.forwarded}]_vars

(***************************************************************************)
(* C26.  When a finished extrapolation job's result has terminated_early   *)
(* set, the client still forwards the partial result to every affected     *)
(* island and wakes it, raises the extrapolation_timeout signal exactly    *)
(* once for that result, and removes the job from the in-flight list so    *)
(* the result is never applied twice.                                      *)
(***************************************************************************)
C26_TimedOutResultApplied ==
    /\ [](\A i, j \in 1..Len(cli_extr.applied) :
             cli_extr.applied[i] = cli_extr.applied[j] => i = j)
    /\ [][CliProcessFinishedExtrapolationJobs =>
             \A k \in 1..Len(cli_extr.jobs) :
                LET job == cli_extr.jobs[k]
                IN  (job.finished /\ job.terminated_early) =>
                       /\ \A i \in collect_islands_from_residents(cli_extr.resident,
                                              job.entities \cap cli_extr.valid) :
                             /\ <<job.id, i>> \in cli_extr'.forwarded
                             /\ i \in cli_extr'.woken
                       /\ Cardinality({n \in 1..Len(cli_extr'.signals) :
                                          cli_extr'.signals[n] = job.id}) = 1
                       /\ \A n \in 1..Len(cli_extr'.jobs) :
                             cli_extr'.jobs[n].id # job.id]_vars

(***************************************************************************)
(* SpecDirty: the client's dirty and network_dirty markers                 *)
(* (client_side.cpp).  A marker is a pair <<entity, component index>>.     *)
(* cli_dirty.dirty and cli_dirty.network_dirty are the two components;     *)
(* cli_dirty.remote holds the markers of dirty that came from              *)
(* network_dirty and were not set by a local change, sent the pairs of the *)
(* last general_snapshot, delta the pairs of the coordinator's last delta. *)
(***************************************************************************)
MaxDirtyEntities == 2   \* entities of the client's registry
MaxDirtyComponents == 2 \* component indexes
MaxDirtySteps == 4      \* imports, changes, ticks and updates in one run

Markers == (1..MaxDirtyEntities) \X (1..MaxDirtyComponents)

\* publish_dirty_components(): the pools of the general_snapshot, the
\* updated_indexes of every entity with dirty and networked_tag.
publish_dirty_components(d) ==
    {m \in d.dirty : m[1] \in d.networked}

\* merge_network_dirty_into_dirty(): the dirty component after the merge.
merge_network_dirty_into_dirty(d) == d.dirty \cup d.network_dirty

OutsideDirty == <<workerv, now, ownerv, aabbv, queuev, snapv, srv_req, cli_map,
                  cli_extr, net_graph, wrk_delta, pkt_pools,
    latev>>

\* process_packet(general_snapshot): the importer marks what it has
\* written as network_dirty.
CliImportSnapshot ==
    /\ cli_dirty.steps < MaxDirtySteps
    /\ \E pools \in SUBSET Markers \ {{}} :
          cli_dirty' = [cli_dirty EXCEPT
                           !.steps = @ + 1,
                           !.last = "import",
                           !.network_dirty = @ \cup pools]
    /\ UNCHANGED OutsideDirty

\* The application changes components of its own and marks them dirty.
CliLocalChange ==
    /\ cli_dirty.steps < MaxDirtySteps
    /\ \E changed \in SUBSET Markers \ {{}} :
          cli_dirty' = [cli_dirty EXCEPT
                           !.steps = @ + 1,
                           !.last = "change",
                           !.dirty = @ \cup changed,
                           !.remote = @ \ changed]
    /\ UNCHANGED OutsideDirty

\* update_network_client(): publish_dirty_components(), then
\* merge_network_dirty_into_dirty().
UpdateNetworkClient ==
    /\ cli_dirty.steps < MaxDirtySteps
    /\ cli_dirty' = [cli_dirty EXCEPT
                        !.steps = @ + 1,
                        !.last = "tick",
                        !.sent = publish_dirty_components(cli_dirty),
                        !.dirty = merge_network_dirty_into_dirty(cli_dirty),
                        !.remote = @ \cup (cli_dirty.network_dirty
                                               \ cli_dirty.dirty),
                        !.network_dirty = {}]
    /\ UNCHANGED OutsideDirty

\* The coordinator's update: the dirty components go into the delta to the
\* workers and dirty is cleared.
CoordinatorUpdate ==
    /\ cli_dirty.steps < MaxDirtySteps
    /\ cli_dirty' = [cli_dirty EXCEPT
                        !.steps = @ + 1,
                        !.last = "update",
                        !.delta = cli_dirty.dirty,
                        !.dirty = {},
                        !.remote = {}]
    /\ UNCHANGED OutsideDirty

InitDirty ==
    /\ WorkerAtConstruction
    /\ now = 0
    /\ ServerAtRest
    /\ RestBut("cli_dirty")
    /\ \E networked \in SUBSET (1..MaxDirtyEntities) :
          cli_dirty = [networked |-> networked, dirty |-> {},
                       network_dirty |-> {}, remote |-> {}, sent |-> {},
                       delta |-> {}, last |-> "none", steps |-> 0]

NextDirty ==
    \/ CliImportSnapshot
    \/ CliLocalChange
    \/ UpdateNetworkClient
    \/ CoordinatorUpdate

SpecDirty == InitDirty /\ [][NextDirty]_vars

(***************************************************************************)
(* C27.  Components marked network_dirty while the client imports a server *)
(* packet are never sent back to the server in a general_snapshot: within  *)
(* each client tick dirty components are published before network_dirty   *)
(* is merged into dirty, and over any sequence of ticks and packet imports *)
(* the merged markers reach only the coordinator's next delta to the       *)
(* workers.                                                                *)
(***************************************************************************)
C27_ImportedNeverSentBack ==
    [][UpdateNetworkClient =>
          /\ cli_dirty'.sent \cap (cli_dirty.network_dirty \ cli_dirty.dirty) = {}
          /\ cli_dirty'.sent \cap cli_dirty.remote = {}]_vars

(***************************************************************************)
(* SpecCreate: the server (part_001) and the client (client_side.cpp)      *)
(* processing a create_entity packet.  The packet's pools make entities    *)
(* 1 and 2 rigid bodies and entity 3 a constraint between them.            *)
(* net_graph.srv and net_graph.cli are the two registries: the entities    *)
(* with graph_node, those with graph_edge, the edges inserted while a body *)
(* had no node, and whether a registry.get<graph_node> has failed.         *)
(***************************************************************************)
MaxGraphSteps == 3      \* create_entity packets in one run

GraphBodies == {1, 2}
GraphConstraints == {3}
GraphEntities == GraphBodies \cup GraphConstraints

\* comp.body of a constraint.
body_of(c) == <<1, 2>>

\* create_graph_edge() for every constraint among the entities, in the
\* packet's order (maybe_create_graph_edge per entity).  Where a body has no
\* graph_node, registry.get<graph_node> fails: a build with assertions stops
\* there (aborts); any other inserts the edge with whatever index it read.
RECURSIVE create_graph_edges(_, _, _)
create_graph_edges(g, entities, aborts) ==
    IF entities = <<>> \/ g.aborted THEN g
    ELSE LET entity == Head(entities)
             has_nodes == Range(body_of(entity)) \subseteq g.nodes
         IN  IF entity \notin GraphConstraints \/ entity \in g.edges
             THEN create_graph_edges(g, Tail(entities), aborts)
             ELSE IF has_nodes
             THEN create_graph_edges([g EXCEPT !.edges = @ \cup {entity}],
                                     Tail(entities), aborts)
             ELSE IF aborts
             THEN [g EXCEPT !.failed = TRUE, !.aborted = TRUE]
             ELSE create_graph_edges(
                      [g EXCEPT !.failed = TRUE,
                                !.edges = @ \cup {entity},
                                !.early = @ \cup {entity}],
                      Tail(entities), aborts)

\* The last loop of the server's process_packet(create_entity): a node for
\* an entity that is a body without one; for any other entity the edges of
\* every entity of the packet.
RECURSIVE server_nodes_and_edges(_, _, _, _)
server_nodes_and_edges(g, entities, rest, aborts) ==
    IF rest = <<>> \/ g.aborted THEN g
    ELSE LET local_entity == Head(rest)
         IN  IF local_entity \in GraphBodies /\ local_entity \notin g.nodes
             THEN server_nodes_and_edges(
                      [g EXCEPT !.nodes = @ \cup {local_entity}],
                      entities, Tail(rest), aborts)
             ELSE server_nodes_and_edges(
                      create_graph_edges(g, entities, aborts),
                      entities, Tail(rest), aborts)

\* The last two loops of the client's process_packet(create_entity): the
\* nodes of all the bodies of the packet, then the edges.
client_nodes_and_edges(g, entities, aborts) ==
    create_graph_edges(
        [g EXCEPT !.nodes = @ \cup (Range(entities) \cap GraphBodies)],
        entities, aborts)

\* The packets a sender makes: a constraint comes with its bodies unless
\* the receiver has them already.
CreatePackets(g) ==
    {entities \in UNION {Orders(S) : S \in SUBSET GraphEntities \ {{}}} :
        \A c \in Range(entities) \cap GraphConstraints :
            Range(body_of(c)) \subseteq g.nodes \cup Range(entities)}

OutsideCreate == <<workerv, now, ownerv, aabbv, queuev, snapv, srv_req, cli_map,
                   cli_extr, cli_dirty, wrk_delta, pkt_pools,
    latev>>

\* The server's process_packet(create_entity).
SrvProcessCreateEntity ==
    /\ net_graph.steps < MaxGraphSteps
    /\ ~net_graph.srv.aborted
    /\ \E entities \in CreatePackets(net_graph.srv) : \E aborts \in BOOLEAN :
          net_graph' = [net_graph EXCEPT
                           !.steps = @ + 1,
                           !.packet = entities,
                           !.srv = server_nodes_and_edges(@, entities,
                                                          entities, aborts)]
    /\ UNCHANGED OutsideCreate

\* The client's process_packet(create_entity).
CliProcessCreateEntity ==
    /\ net_graph.steps < MaxGraphSteps
    /\ ~net_graph.cli.aborted
    /\ \E entities \in CreatePackets(net_graph.cli) : \E aborts \in BOOLEAN :
          net_graph' = [net_graph EXCEPT
                           !.steps = @ + 1,
                           !.packet = entities,
                           !.cli = client_nodes_and_edges(@, entities, aborts)]
    /\ UNCHANGED OutsideCreate

EmptyGraph ==
    [nodes |-> {}, edges |-> {}, early |-> {}, failed |-> FALSE,
     aborted |-> FALSE]

InitCreate ==
    /\ WorkerAtConstruction
    /\ now = 0
    /\ ServerAtRest
    /\ RestBut("net_graph")
    /\ net_graph = [srv |-> EmptyGraph, cli |-> EmptyGraph, packet |-> <<>>,
                    steps |-> 0]

NextCreate ==
    \/ SrvProcessCreateEntity
    \/ CliProcessCreateEntity

SpecCreate == InitCreate /\ [][NextCreate]_vars

(***************************************************************************)
(* C28.  After the server or the client processes a create_entity packet,  *)
(* for any ordering of the entities inside the packet, every constraint    *)
(* entity that received a graph_edge has both of its bodies existing with  *)
(* a graph_node, and no edge is inserted into the entity graph before the  *)
(* nodes of both of its bodies exist.                                      *)
(***************************************************************************)
C28_EdgesAfterNodes ==
    \A g \in {net_graph.srv, net_graph.cli} :
        /\ \A c \in g.edges : Range(body_of(c)) \subseteq g.nodes
        /\ g.early = {}
        /\ ~g.failed

(***************************************************************************)
(* SpecDelta: the worker importing island deltas of the coordinator        *)
(* (island_worker::on_island_delta).  The coordinator's entities 1, 2 and  *)
(* 3 are rigid bodies, 4 is a constraint between 1 and 2, 5 one between 2  *)
(* and 3.  wrk_delta holds the worker's entity map (the mapped remote      *)
(* entities), the number of nodes the entity graph holds for each entity,  *)
(* the entities with graph_node and with graph_edge, the number of edges   *)
(* of the graph for each constraint, and the delta delivered last.         *)
(***************************************************************************)
MaxDeltaSteps == 3      \* deltas delivered in one run
MaxDeltaSize == 3       \* created entities of one delta

DeltaBodies == {1, 2, 3}
DeltaConstraints == {4, 5}
DeltaEntities == DeltaBodies \cup DeltaConstraints

\* con.body of a constraint.
con_body(c) == IF c = 4 THEN {1, 2} ELSE {2, 3}

\* delta.import(): an entity the delta creates gets a local entity and a
\* mapping unless it is mapped already.
delta_import(w, created) == [w EXCEPT !.entity_map = @ \cup created]

\* insert_remote_node() for the bodies the delta creates, one after the
\* other.  registry.emplace<graph_node> on an entity that has the component
\* fails: a build with assertions stops there (aborts), any other goes on
\* with the node inserted a second time.
RECURSIVE insert_remote_nodes(_, _, _)
insert_remote_nodes(w, remote, aborts) ==
    IF remote = {} \/ w.aborted THEN w
    ELSE LET remote_entity == CHOOSE r \in remote : \A o \in remote : r <= o
             rest == remote \ {remote_entity}
             inserted == [w EXCEPT !.graph_nodes[remote_entity] = @ + 1,
                                   !.graph_node = @ \cup {remote_entity}]
         IN  IF remote_entity \notin w.entity_map
             THEN insert_remote_nodes(w, rest, aborts)
             ELSE IF remote_entity \notin w.graph_node
             THEN insert_remote_nodes(inserted, rest, aborts)
             ELSE IF aborts
             THEN [inserted EXCEPT !.failed = TRUE, !.aborted = TRUE]
             ELSE insert_remote_nodes([inserted EXCEPT !.failed = TRUE],
                                      rest, aborts)

\* The edges of the constraints the delta creates: none for an entity
\* without a mapping or with a graph_edge.
insert_remote_edges(w, remote) ==
    LET fresh == {c \in remote : c \in w.entity_map /\ c \notin w.graph_edge}
    IN  [w EXCEPT !.graph_edge = @ \cup fresh,
                  !.graph_edges = [c \in DeltaConstraints |->
                                      IF c \in fresh THEN @[c] + 1 ELSE @[c]]]

\* The deltas of the coordinator: entities it has not created before, a
\* constraint with its bodies or after them.
Deltas(w) ==
    {created \in SUBSET (DeltaEntities \ w.entity_map) :
        /\ created # {}
        /\ Cardinality(created) <= MaxDeltaSize
        /\ \A c \in created \cap DeltaConstraints :
              con_body(c) \subseteq w.graph_node \cup created}

OutsideDelta == <<workerv, now, ownerv, aabbv, queuev, snapv, srv_req, cli_map,
                  cli_extr, cli_dirty, net_graph, pkt_pools,
    latev>>

\* What a second delivery may not change.
WorkerState(w) ==
    <<w.entity_map, w.graph_nodes, w.graph_node, w.graph_edge, w.graph_edges>>

\* on_island_delta(): a delta of the coordinator, new or the one delivered
\* last.
WrkOnIslandDelta ==
    /\ wrk_delta.steps < MaxDeltaSteps
    /\ ~wrk_delta.aborted
    /\ \E created \in Deltas(wrk_delta) \cup ({wrk_delta.delta} \ {{}}) :
       \E aborts \in BOOLEAN :
          LET imported == delta_import(wrk_delta, created)
              nodes == insert_remote_nodes(imported,
                                           created \cap DeltaBodies, aborts)
              edges == IF nodes.aborted THEN nodes
                       ELSE insert_remote_edges(nodes,
                                created \cap DeltaConstraints)
          IN  wrk_delta' = [edges EXCEPT !.steps = @ + 1,
                                         !.delta = created,
                                         !.again = (created = wrk_delta.delta)]
    /\ UNCHANGED OutsideDelta

InitDelta ==
    /\ WorkerAtConstruction
    /\ now = 0
    /\ ServerAtRest
    /\ RestBut("wrk_delta")
    /\ wrk_delta = [entity_map |-> {},
                    graph_nodes |-> [e \in DeltaBodies |-> 0],
                    graph_node |-> {}, graph_edge |-> {},
                    graph_edges |-> [c \in DeltaConstraints |-> 0],
                    delta |-> {}, again |-> FALSE, failed |-> FALSE,
                    aborted |-> FALSE, steps |-> 0]

NextDelta == WrkOnIslandDelta

SpecDelta == InitDelta /\ [][NextDelta]_vars

(***************************************************************************)
(* C29.  Delivering the same island_delta to a worker twice leaves the     *)
(* worker's registry, entity map and entity graph in the same state as     *)
(* delivering it once: entities already mapped are not created again and   *)
(* no second graph node or graph edge is inserted for an entity that       *)
(* already has one.                                                        *)
(***************************************************************************)
C29_DeltaTwiceAsOnce ==
    /\ [](\A e \in DeltaBodies : wrk_delta.graph_nodes[e] <= 1)
    /\ [](\A c \in DeltaConstraints : wrk_delta.graph_edges[c] <= 1)
    /\ [][(WrkOnIslandDelta /\ wrk_delta'.again) =>
             /\ WorkerState(wrk_delta') = WorkerState(wrk_delta)
             /\ ~wrk_delta'.failed]_vars

(***************************************************************************)
(* SpecPools: the pools of the create_entity packets and of the            *)
(* entity_response as they leave their sender (client_side.cpp, part_001). *)
(* A pool is a component index with the entities it holds.  pkt_pools      *)
(* holds the components of each entity, the pools as export_all() left     *)
(* them, and the packet published last.                                    *)
(***************************************************************************)
MaxPoolEntities == 2    \* entities a packet is made of
MaxPoolComponents == 3  \* component indexes
MaxPoolSteps == 2       \* packets made in one run

PoolEntities == 1..MaxPoolEntities
PoolComponents == 1..MaxPoolComponents

\* export_all() of one entity: each of its components goes into the pool
\* of its index, a new pool at the end where there is none.
RECURSIVE export_all(_, _, _)
export_all(pools, entity, indexes) ==
    IF indexes = <<>> THEN pools
    ELSE LET index == Head(indexes)
             at == {i \in 1..Len(pools) : pools[i].component_index = index}
         IN  export_all(
                 IF at = {}
                 THEN Append(pools, [component_index |-> index,
                                     entities |-> <<entity>>])
                 ELSE [i \in 1..Len(pools) |->
                          IF i \in at
                          THEN [pools[i] EXCEPT !.entities = Append(@, entity)]
                          ELSE pools[i]],
                 entity, Tail(indexes))

\* export_all() for the entities of a packet, one after the other.
RECURSIVE export_entities(_, _, _)
export_entities(pools, entities, order) ==
    IF entities = <<>> THEN pools
    ELSE export_entities(export_all(pools, Head(entities), order[Head(entities)]),
                         Tail(entities), order)

\* std::sort with lhs.component_index < rhs.component_index.
RECURSIVE sort_by_component_index(_)
sort_by_component_index(pools) ==
    IF pools = <<>> THEN <<>>
    ELSE LET least == CHOOSE i \in 1..Len(pools) :
                          \A j \in 1..Len(pools) :
                              pools[i].component_index
                                  <= pools[j].component_index
         IN  <<pools[least]>> \o
             sort_by_component_index(
                 [i \in 1..(Len(pools) - 1) |->
                     IF i < least THEN pools[i] ELSE pools[i + 1]])

\* The mutant: the pools leave as they were exported.
sort_pools_skipped(pools) == pools

\* The pools of a packet before it is published.
sort_pools(pools) == sort_by_component_index(pools)

\* The packets of entities: a sequence of entities and, for each, the order
\* the exporter visits its components in.
PoolPackets(x) ==
    {pk \in [entities : UNION {Orders(S) : S \in SUBSET PoolEntities},
             order : [PoolEntities -> UNION {Orders(S) :
                                                S \in SUBSET PoolComponents}]] :
        \A e \in PoolEntities : Range(pk.order[e]) = x.has[e]}

\* The packet a sender makes of the entities.
MadePacket(x, kind, pk) ==
    LET exported == export_entities(<<>>, pk.entities, pk.order)
    IN  [x EXCEPT !.steps = @ + 1,
                  !.exported = exported,
                  !.packet = [kind |-> kind, entities |-> pk.entities,
                              pools |-> sort_pools(exported)]]

OutsidePools == <<workerv, now, ownerv, aabbv, queuev, snapv, srv_req, cli_map,
                  cli_extr, cli_dirty, net_graph, wrk_delta,
    latev>>

\* The client's process_created_networked_entities(): nothing without a
\* created entity.
CliProcessCreatedNetworkedEntities ==
    /\ pkt_pools.steps < MaxPoolSteps
    /\ \E pk \in PoolPackets(pkt_pools) :
          /\ pk.entities # <<>>
          /\ pkt_pools' = MadePacket(pkt_pools, "client_create_entity", pk)
    /\ UNCHANGED OutsidePools

\* The server's process_aabb_of_interest_created_entities(): a packet of
\* the entities that entered and are not the client's own, if there is one.
SrvAabbCreatedEntities ==
    /\ pkt_pools.steps < MaxPoolSteps
    /\ \E pk \in PoolPackets(pkt_pools) :
          /\ pk.entities # <<>>
          /\ pkt_pools' = MadePacket(pkt_pools, "aabb_create_entity", pk)
    /\ UNCHANGED OutsidePools

\* server_notify_created_entities(): a packet of the entities it is given.
SrvNotifyCreatedEntities ==
    /\ pkt_pools.steps < MaxPoolSteps
    /\ \E pk \in PoolPackets(pkt_pools) :
          pkt_pools' = MadePacket(pkt_pools, "notify_create_entity", pk)
    /\ UNCHANGED OutsidePools

\* The end of the server's process_packet(entity_request): the response is
\* sorted and published if it holds an entity.
SrvEntityResponse ==
    /\ pkt_pools.steps < MaxPoolSteps
    /\ \E pk \in PoolPackets(pkt_pools) :
          /\ pk.entities # <<>>
          /\ pkt_pools' = MadePacket(pkt_pools, "entity_response", pk)
    /\ UNCHANGED OutsidePools

InitPools ==
    /\ WorkerAtConstruction
    /\ now = 0
    /\ ServerAtRest
    /\ RestBut("pkt_pools")
    /\ \E has \in [PoolEntities -> SUBSET PoolComponents \ {{}}] :
          pkt_pools = [has |-> has, exported |-> <<>>,
                       packet |-> [kind |-> "none", entities |-> <<>>,
                                   pools |-> <<>>],
                       steps |-> 0]

NextPools ==
    \/ CliProcessCreatedNetworkedEntities
    \/ SrvAabbCreatedEntities
    \/ SrvNotifyCreatedEntities
    \/ SrvEntityResponse

SpecPools == InitPools /\ [][NextPools]_vars

\* The pools are in non-decreasing order of component index.
InComponentOrder(pools) ==
    \A i, j \in 1..Len(pools) :
        i < j => pools[i].component_index <= pools[j].component_index

(***************************************************************************)
(* C30.  Every create_entity packet (client-originated, server             *)
(* AABB-of-interest, server_notify_created_entities) and every             *)
(* entity_response leaves its sender with its pools in non-decreasing      *)
(* component_index order.  The packet holds what was exported: the same    *)
(* pools with the same entities.                                           *)
(***************************************************************************)
C30_PoolsSorted ==
    /\ InComponentOrder(pkt_pools.packet.pools)
    /\ Range(pkt_pools.packet.pools) = Range(pkt_pools.exported)
    /\ Len(pkt_pools.packet.pools) = Len(pkt_pools.exported)

\* An entity_response whose pools were exported out of order.
C30_Witness ==
    /\ pkt_pools.packet.kind = "entity_response"
    /\ Len(pkt_pools.exported) > 1
    /\ ~InComponentOrder(pkt_pools.exported)
    /\ InComponentOrder(pkt_pools.packet.pools)

(***************************************************************************)
(* SpecDelay: the server's playout delay of each client (part_001,         *)
(* calculate_client_playout_delay).  Times are whole milliseconds; a round *)
(* trip time is an even number of them.  srv_delay holds each client's     *)
(* round_trip_time and playout_delay, the entities of its AABB of          *)
(* interest, the owner of each entity, the playout_delay_multiplier, and   *)
(* for the last tick the delays before it and the clients that were sent   *)
(* a set_playout_delay.                                                    *)
(***************************************************************************)
MaxRtt == 4             \* half of the largest round trip time
MaxDelayEntities == 2   \* entities of the server
MaxDelaySteps == 5      \* calls and ticks in one run
DelayTolerance == 2     \* the 0.002 s of the comparison

DelayEntities == 1..MaxDelayEntities
RttValues == {2 * h : h \in 0..MaxRtt}
Multipliers == {1, 2}

Abs(x) == IF x < 0 THEN -x ELSE x

RECURSIVE max_of(_)
max_of(S) ==
    IF S = {} THEN 0
    ELSE LET x == CHOOSE x \in S : TRUE
             m == max_of(S \ {x})
         IN  IF x > m THEN x ELSE m

\* The mutant: the client's own round trip time only.
biggest_rtt_own(d, c) == d.round_trip_time[c]

\* The loop of calculate_client_playout_delay(): the largest round trip
\* time among the client and the owners of the entities of its AABB of
\* interest.
biggest_rtt(d, c) ==
    max_of({d.round_trip_time[c]} \cup
           {d.round_trip_time[d.owner[e]] :
               e \in {e \in d.aabboi[c] : d.owner[e] # Null}})

\* biggest_latency * playout_delay_multiplier.
playout_delay_of(d, c) == (biggest_rtt(d, c) \div 2) * d.multiplier

\* calculate_client_playout_delay(): the delay is stored and sent when it
\* differs from the stored one by more than the tolerance.
calculate_client_playout_delay(d, c) ==
    LET playout_delay == playout_delay_of(d, c)
    IN  IF Abs(playout_delay - d.playout_delay[c]) > DelayTolerance
        THEN [d EXCEPT !.playout_delay[c] = playout_delay,
                       !.sent = @ \cup {c}]
        ELSE d

\* process_aabbs_of_interest(): one client after the other.
RECURSIVE process_aabbs_of_interest(_, _)
process_aabbs_of_interest(d, clients) ==
    IF clients = {} THEN d
    ELSE LET c == CHOOSE c \in clients : \A o \in clients : c <= o
         IN  process_aabbs_of_interest(calculate_client_playout_delay(d, c),
                                       clients \ {c})

OutsideDelay == <<workerv, now, ownerv, aabbv, queuev, snapv, srv_req, cli_map,
                  cli_extr, cli_dirty, net_graph, wrk_delta, pkt_pools,
                  split_delta, srv_destroy, cli_echo, present>>

\* server_set_client_round_trip_time().
SrvSetClientRoundTripTime ==
    /\ srv_delay.steps < MaxDelaySteps
    /\ \E c \in Clients : \E rtt \in RttValues :
          /\ rtt # srv_delay.round_trip_time[c]
          /\ srv_delay' = [srv_delay EXCEPT !.steps = @ + 1,
                                            !.last = "rtt",
                                            !.round_trip_time[c] = rtt]
    /\ UNCHANGED OutsideDelay

\* update_aabbs_of_interest(): an entity enters or leaves the AABB of
\* interest of a client.
SrvUpdateAabbsOfInterest ==
    /\ srv_delay.steps < MaxDelaySteps
    /\ \E c \in Clients : \E e \in DelayEntities :
          srv_delay' = [srv_delay EXCEPT
                           !.steps = @ + 1,
                           !.last = "aabb",
                           !.aabboi[c] = IF e \in @ THEN @ \ {e}
                                         ELSE @ \cup {e}]
    /\ UNCHANGED OutsideDelay

\* update_network_server(): process_aabbs_of_interest().
SrvCalculatePlayoutDelays ==
    /\ srv_delay.steps < MaxDelaySteps
    /\ srv_delay' =
           [process_aabbs_of_interest([srv_delay EXCEPT !.sent = {}], Clients)
               EXCEPT !.steps = @ + 1,
                      !.last = "tick",
                      !.before = srv_delay.playout_delay]
    /\ UNCHANGED OutsideDelay

\* The clients have connected: no round trip time measured, no delay.
InitDelay ==
    /\ WorkerAtConstruction
    /\ now = 0
    /\ ServerAtRest
    /\ RestBut("srv_delay")
    /\ \E owner \in [DelayEntities -> {Null} \cup Clients] :
       \E multiplier \in Multipliers :
          srv_delay = [round_trip_time |-> [c \in Clients |-> 0],
                       playout_delay |-> [c \in Clients |-> 0],
                       before |-> [c \in Clients |-> 0],
                       aabboi |-> [c \in Clients |-> {}],
                       owner |-> owner, multiplier |-> multiplier,
                       sent |-> {}, last |-> "none", steps |-> 0]

NextDelay ==
    \/ SrvSetClientRoundTripTime
    \/ SrvUpdateAabbsOfInterest
    \/ SrvCalculatePlayoutDelays

SpecDelay == InitDelay /\ [][NextDelay]_vars

\* The largest round trip time the claim names, halved and multiplied.
ClaimedDelay(c) ==
    LET owners == {srv_delay.owner[e] : e \in srv_delay.aabboi[c]} \ {Null}
        rtts == {srv_delay.round_trip_time[o] : o \in owners \cup {c}}
    IN  (max_of(rtts) \div 2) * srv_delay.multiplier

(***************************************************************************)
(* C31.  After each server tick a client's playout_delay is within 2 ms    *)
(* of (the largest round-trip time among the client itself and the owning  *)
(* clients of entities in its AABB of interest) / 2 *                      *)
(* playout_delay_multiplier, and a set_playout_delay packet is sent in a   *)
(* tick exactly when the newly computed value differs from the stored one  *)
(* by more than 2 ms.                                                      *)
(***************************************************************************)
C31_PlayoutDelayTracksRtt ==
    srv_delay.last = "tick" =>
        \A c \in Clients :
            /\ Abs(srv_delay.playout_delay[c] - ClaimedDelay(c))
                   <= DelayTolerance
            /\ c \in srv_delay.sent <=>
                   Abs(ClaimedDelay(c) - srv_delay.before[c]) > DelayTolerance

\* A tick that has sent one client its new delay and has left the delay of
\* another, which the owner of an entity in its AABB of interest makes
\* larger, a little off without a packet.
C31_Witness ==
    /\ srv_delay.last = "tick"
    /\ \E c \in srv_delay.sent :
          srv_delay.playout_delay[c] = ClaimedDelay(c)
    /\ \E c \in Clients \ srv_delay.sent :
          /\ srv_delay.playout_delay[c] # ClaimedDelay(c)
          /\ ClaimedDelay(c) >
                 (srv_delay.round_trip_time[c] \div 2) * srv_delay.multiplier

(***************************************************************************)
(* The delta of split() and its early return (SpecSplit).                  *)
(***************************************************************************)

\* The nodes and the edges split() has destroyed.
NodesMovedOut == graph_before.nodes \ graph_nodes
EdgesMovedOut == graph_before.edges \ graph_edges

(***************************************************************************)
(* C33.  The delta sent by split() carries the full current component      *)
(* values (updated_all) of every entity moved out of the worker, that is   *)
(* the nodes of the departing components and the edges destroyed along     *)
(* with them, and carries no destroyed entry for any of them, so no        *)
(* component value is lost when the coordinator hands them to a new        *)
(* worker.                                                                 *)
(***************************************************************************)
C33_SplitDeltaCarriesMovedOut ==
    SplitDone =>
        /\ split_delta.sent
        /\ NodesMovedOut \subseteq split_delta.updated_nodes
        /\ EdgesMovedOut \subseteq split_delta.updated_edges
        /\ split_delta.destroyed_nodes \cap NodesMovedOut = {}
        /\ split_delta.destroyed_edges \cap EdgesMovedOut = {}

(***************************************************************************)
(* C34.  split() first processes all pending inbound messages; if the      *)
(* worker's graph then has at most one connected component, split()        *)
(* destroys no entity, sends no delta, clears the splitting flag,          *)
(* reschedules the worker for immediate execution and returns an empty     *)
(* list.                                                                   *)
(***************************************************************************)
C34_SplitOfOneComponent ==
    /\ [](split_pc \in {"loop", "done"} => inbox = <<>>)
    /\ [][(SplitStart /\ Cardinality(ComponentsBefore) <= 1) =>
             /\ \E msgs \in Contents(Len(inbox)) :
                   LET w == process_messages(W, msgs, now)
                   IN  /\ m_state' = w.m_state
                       /\ paused' = w.paused
                       /\ sleeping' = w.sleeping
             /\ graphv' = graphv
             /\ split_delta'.sent = FALSE
             /\ split_delta'.updated_nodes = {}
             /\ m_splitting' = FALSE
             /\ jobs_ready' = jobs_ready + 1
             /\ split_return' = <<>>
             /\ split_pc' = "done"]_vars

\* split() has returned nothing for a graph of one component, after a
\* set_paused message that it has processed.
C34_Witness ==
    /\ split_pc = "done"
    /\ split_return = <<>>
    /\ Cardinality(ComponentsBefore) = 1
    /\ paused
    /\ ~m_splitting
    /\ jobs_ready = 1

(***************************************************************************)
(* C35 (Spec).  Whenever maybe_reschedule() reaches the exchange of the    *)
(* reschedule counter, the counter is non-zero                             *)
(* (EDYN_ASSERT(reschedule_count != 0) never fails), in every interleaving *)
(* with external reschedule(), split() and terminate() calls and for every *)
(* path that enqueues the job, including reschedule_now().                 *)
(***************************************************************************)
C35_ExchangeFindsRequest ==
    [][\A t \in Threads :
          MaybeRescheduleExchange(t) => m_reschedule_counter # 0]_vars

(***************************************************************************)
(* C36 (SpecObs).  clear_dangling_non_procedural_nodes destroys exactly    *)
(* those still-valid non-procedural nodes that lost an edge since the      *)
(* previous clear and now have no adjacent procedural node in the worker's *)
(* graph, reports none of the resulting destructions (of the node or of    *)
(* any entity destroyed with it) in the outbound delta, and leaves the     *)
(* candidate set empty.                                                    *)
(***************************************************************************)
C36_ClearDanglingIsSilent ==
    [][ObsClearDangling =>
          /\ graph_nodes \ graph_nodes' =
                 {n \in (m_possibly_dangling_np_nodes \cap graph_nodes)
                            \ graph_procedural :
                     \A e \in graph_edges :
                         n \in e => e \cap graph_procedural = {}}
          /\ graph_nodes' \subseteq graph_nodes
          /\ m_delta_builder'.destroyed = m_delta_builder.destroyed
          /\ m_possibly_dangling_np_nodes' = {}]_vars

(***************************************************************************)
(* SpecDestroy: the server handling the destroy_entity packets of its      *)
(* clients (server_side.cpp).  A client's packets create entities, add     *)
(* pairs to the client's entity map and name the entities to destroy by    *)
(* their remote identifiers; a packet may name an identifier twice, one    *)
(* that is not mapped, or one mapped to an entity of another owner.        *)
(***************************************************************************)
MaxDstEntities == 3     \* the server's entities
MaxDstRemotes == 3      \* the remote identifiers a client uses
MaxDstPacket == 2       \* the entities a destroy_entity packet lists
MaxDstSteps == 3        \* packets handled

DstEntities == 1..MaxDstEntities
DstRemotes == 11..(10 + MaxDstRemotes)

\* The packets: the lists of remote identifiers of up to MaxDstPacket
\* entries.
DstPackets == UNION {[1..n -> DstRemotes] : n \in 1..MaxDstPacket}

\* The mutant: the owner of the entity is not looked at.
destroy_allowed_any_owner(d, client_entity, local_entity) ==
    local_entity \in d.valid

\* process_packet(destroy_entity): registry.valid(local_entity) and
\* owner && owner->client_entity == client_entity.
destroy_allowed(d, client_entity, local_entity) ==
    /\ local_entity \in d.valid
    /\ d.owner[local_entity] # Null
    /\ d.owner[local_entity] = client_entity

\* process_packet(destroy_entity): the loop over packet.entities.
RECURSIVE process_destroy_entity(_, _, _)
process_destroy_entity(d, client_entity, entities) ==
    IF entities = <<>> THEN d
    ELSE LET remote_entity == Head(entities)
             emap == d.entity_map[client_entity]
             local_entity == remloc(emap, remote_entity)
             after ==
                 IF /\ has_rem(emap, remote_entity)
                    /\ destroy_allowed(d, client_entity, local_entity)
                 THEN [d EXCEPT
                          !.valid = @ \ {local_entity},
                          !.owner[local_entity] = Null,
                          !.entity_map[client_entity] =
                              {pr \in @ : pr[1] # remote_entity},
                          !.owned_entities[client_entity] =
                              @ \ {local_entity},
                          !.aabboi[client_entity] = @ \ {local_entity}]
                 ELSE d
         IN  process_destroy_entity(after, client_entity, Tail(entities))

OutsideDestroy == <<workerv, now, ownerv, aabbv, queuev, snapv, srv_req,
                    cli_map, cli_extr, cli_dirty, net_graph, wrk_delta,
                    pkt_pools, srv_delay, split_delta, cli_echo, present>>

\* What a packet leaves of the record of the packet before it.
DstHandled(d, packet) ==
    [d EXCEPT !.last = packet, !.steps = @ + 1,
              !.before = [valid |-> srv_destroy.valid,
                          owner |-> srv_destroy.owner,
                          entity_map |-> srv_destroy.entity_map,
                          owned_entities |-> srv_destroy.owned_entities,
                          aabboi |-> srv_destroy.aabboi]]

\* process_packet(create_entity): the entity a client creates is owned by
\* the client, mapped and listed in owned_entities.
DstCreateEntity ==
    /\ srv_destroy.steps < MaxDstSteps
    /\ \E c \in Clients : \E remote_entity \in DstRemotes :
       \E local_entity \in DstEntities \ srv_destroy.created :
          /\ ~has_rem(srv_destroy.entity_map[c], remote_entity)
          /\ srv_destroy' =
                 DstHandled([srv_destroy EXCEPT
                                !.valid = @ \cup {local_entity},
                                !.created = @ \cup {local_entity},
                                !.owner[local_entity] = c,
                                !.entity_map[c] =
                                    @ \cup {<<remote_entity, local_entity>>},
                                !.owned_entities[c] = @ \cup {local_entity}],
                            [kind |-> "create_entity", client |-> c,
                             entities |-> <<remote_entity>>])
    /\ UNCHANGED OutsideDestroy

\* process_packet(update_entity_map): the client names the pair of an
\* entity of the server that it has no mapping for.
DstUpdateEntityMap ==
    /\ srv_destroy.steps < MaxDstSteps
    /\ \E c \in Clients : \E remote_entity \in DstRemotes :
       \E local_entity \in srv_destroy.created :
          /\ ~has_rem(srv_destroy.entity_map[c], remote_entity)
          /\ ~has_loc(srv_destroy.entity_map[c], local_entity)
          /\ srv_destroy' =
                 DstHandled([srv_destroy EXCEPT
                                !.entity_map[c] =
                                    @ \cup {<<remote_entity, local_entity>>}],
                            [kind |-> "update_entity_map", client |-> c,
                             entities |-> <<remote_entity>>])
    /\ UNCHANGED OutsideDestroy

\* process_packet(destroy_entity).
DstDestroyEntity ==
    /\ srv_destroy.steps < MaxDstSteps
    /\ \E c \in Clients : \E entities \in DstPackets :
          srv_destroy' =
              DstHandled(process_destroy_entity(srv_destroy, c, entities),
                         [kind |-> "destroy_entity", client |-> c,
                          entities |-> entities])
    /\ UNCHANGED OutsideDestroy

\* Entities 1 and 2 exist, each created by a client, which owns it and has
\* it in its entity map and among its owned_entities, or owned by none; the
\* AABBs of interest of the clients hold the same entities.
InitDestroy ==
    /\ WorkerAtConstruction
    /\ now = 0
    /\ ServerAtRest
    /\ RestBut("srv_destroy")
    /\ \E owner \in [{1, 2} -> {Null} \cup Clients] :
       \E inside \in SUBSET {1, 2} :
          srv_destroy =
              [valid |-> {1, 2}, created |-> {1, 2},
               owner |-> [e \in DstEntities |->
                             IF e \in {1, 2} THEN owner[e] ELSE Null],
               entity_map |-> [c \in Clients |->
                                  {<<10 + e, e>> : e \in
                                      {x \in {1, 2} : owner[x] = c}}],
               owned_entities |-> [c \in Clients |->
                                      {x \in {1, 2} : owner[x] = c}],
               aabboi |-> [c \in Clients |-> inside],
               last |-> [kind |-> "none", client |-> Null,
                         entities |-> <<>>],
               before |-> <<>>, steps |-> 0]

NextDestroy ==
    \/ DstCreateEntity
    \/ DstUpdateEntityMap
    \/ DstDestroyEntity

SpecDestroy == InitDestroy /\ [][NextDestroy]_vars

\* The entities of the server a packet of client c named, by the entity map
\* the client had when the packet arrived.
DstNamed(c) ==
    {pr[2] : pr \in {q \in srv_destroy.before.entity_map[c] :
                        \E i \in DOMAIN srv_destroy.last.entities :
                            srv_destroy.last.entities[i] = q[1]}}

C38_ResultOfDestroyedEntities ==
    [][CliProcessFinishedExtrapolationJobs =>
          /\ ~cli_extr'.failed
          /\ \A f \in cli_extr'.forwarded :
                \E k \in 1..Len(cli_extr.jobs) :
                   /\ cli_extr.jobs[k].id = f[1]
                   /\ \E e \in cli_extr.jobs[k].entities \cap cli_extr.valid :
                         cli_extr.resident[e] = f[2]]_vars

(***************************************************************************)
(* SpecEcho: the client's lists of created and destroyed networked         *)
(* entities (client_side.cpp).  The observers of networked_tag run inside  *)
(* the handlers of the server's packets and when the user creates or       *)
(* destroys a networked entity; update_network_client() sends the lists.   *)
(* cli_echo.gained and cli_echo.lost hold the entities that gained or lost *)
(* networked_tag inside a handler of a server packet, cli_echo.self_owned  *)
(* those process_created_networked_entities() gave the client as owner.    *)
(* registry.create() never yields an identifier twice.                     *)
(***************************************************************************)
MaxEchoEntities == 4    \* the entities the client registry creates
MaxEchoRemotes == 2     \* the entities of the server
MaxEchoSteps == 5       \* packets handled and user operations

EchoRemote == 31..(30 + MaxEchoRemotes)

\* The mutant: the observer does not look at importing_entities.
on_construct_networked_entity_always(x, entities) ==
    [x EXCEPT !.created_entities = @ \cup entities]

\* on_construct_networked_entity(), for each of the entities.
on_construct_networked_entity(x, entities) ==
    IF ~x.importing_entities
    THEN [x EXCEPT !.created_entities = @ \cup entities]
    ELSE x

\* on_destroy_networked_entity(), for each of the entities.
on_destroy_networked_entity(x, entities) ==
    IF ~x.importing_entities
    THEN [x EXCEPT !.destroyed_entities = @ \cup entities,
                   !.entity_map = {pr \in @ : pr[2] \notin entities}]
    ELSE x

\* The loop "if has_rem continue; registry.create(); entity_map.insert()"
\* of the handlers: the remote entities without a mapping get the next
\* local entities, in their order.
create_unmapped_of(x, remote_entities) ==
    LET unmapped == {r \in remote_entities : ~has_rem(x.entity_map, r)}
        local(r) == x.next + Cardinality({q \in unmapped : q < r})
    IN  [x EXCEPT !.next = @ + Cardinality(unmapped),
                  !.valid = @ \cup {local(r) : r \in unmapped},
                  !.entity_map = @ \cup {<<r, local(r)>> : r \in unmapped}]

\* registry.emplace<networked_tag>(local_entity) for the entities of a
\* packet that lack the tag, inside a handler.
emplace_networked_tag_of(x, remote_entities) ==
    LET tagged == {remloc(x.entity_map, r) : r \in remote_entities}
                      \ x.networked
    IN  [on_construct_networked_entity(x, tagged) EXCEPT
            !.networked = @ \cup tagged,
            !.gained = @ \cup tagged]

OutsideEcho == <<workerv, now, ownerv, aabbv, queuev, snapv, srv_req, cli_map,
                 cli_extr, cli_dirty, net_graph, wrk_delta, pkt_pools,
                 srv_delay, split_delta, srv_destroy, present>>

\* What a handler leaves: the count of the steps and its name.
EchoStep(x, handler) == [x EXCEPT !.steps = @ + 1, !.last = handler]

\* process_packet(client_created); 30 is the client entity of the server.
\* tag_external_entity() may or may not emplace networked_tag.
EchoClientCreated ==
    /\ cli_echo.steps < MaxEchoSteps
    /\ cli_echo.client_entity = Null
    /\ cli_echo.next <= MaxEchoEntities
    /\ \E tags \in BOOLEAN :
          LET x == [cli_echo EXCEPT !.importing_entities = TRUE]
              local_entity == x.next
              y == [x EXCEPT !.next = @ + 1,
                             !.valid = @ \cup {local_entity},
                             !.client_entity = local_entity,
                             !.entity_map = @ \cup {<<30, local_entity>>}]
              z == IF tags
                   THEN [on_construct_networked_entity(y, {local_entity})
                            EXCEPT !.networked = @ \cup {local_entity},
                                   !.gained = @ \cup {local_entity}]
                   ELSE y
          IN  cli_echo' = EchoStep([z EXCEPT !.importing_entities = FALSE],
                               "client_created")
    /\ UNCHANGED OutsideEcho

\* process_packet(create_entity).
EchoCreateEntity ==
    /\ cli_echo.steps < MaxEchoSteps
    /\ \E remote_entities \in SUBSET EchoRemote \ {{}} :
          LET x == [cli_echo EXCEPT !.importing_entities = TRUE]
              y == create_unmapped_of(x, remote_entities)
              z == emplace_networked_tag_of(y, remote_entities)
          IN  /\ y.next <= MaxEchoEntities + 1
              /\ \A r \in remote_entities :
                     remloc(y.entity_map, r) \in y.valid
              /\ cli_echo' = EchoStep([z EXCEPT !.importing_entities = FALSE],
                               "create_entity")
    /\ UNCHANGED OutsideEcho

\* process_packet(entity_response).  For an entity that has networked_tag
\* the emplace is the one of C23; the observer it may run finds
\* importing_entities set.
EchoEntityResponse ==
    /\ cli_echo.steps < MaxEchoSteps
    /\ \E remote_entities \in SUBSET EchoRemote \ {{}} :
          LET x == [cli_echo EXCEPT !.importing_entities = TRUE]
              y == create_unmapped_of(x, remote_entities)
              z == emplace_networked_tag_of(y, remote_entities)
          IN  /\ y.next <= MaxEchoEntities + 1
              /\ \A r \in remote_entities :
                     remloc(y.entity_map, r) \in y.valid
              /\ cli_echo' = EchoStep([z EXCEPT !.importing_entities = FALSE],
                               "entity_response")
    /\ UNCHANGED OutsideEcho

\* process_packet(destroy_entity).
EchoDestroyEntity ==
    /\ cli_echo.steps < MaxEchoSteps
    /\ \E remote_entities \in SUBSET EchoRemote \ {{}} :
          LET x == [cli_echo EXCEPT !.importing_entities = TRUE]
              mapped == {r \in remote_entities : has_rem(x.entity_map, r)}
              gone == {remloc(x.entity_map, r) : r \in mapped} \cap x.valid
              y == [x EXCEPT !.entity_map = {pr \in @ : pr[1] \notin mapped}]
              z == [on_destroy_networked_entity(y, gone \cap y.networked)
                       EXCEPT !.valid = @ \ gone,
                              !.networked = @ \ gone,
                              !.lost = @ \cup (gone \cap y.networked)]
          IN  cli_echo' = EchoStep([z EXCEPT !.importing_entities = FALSE],
                               "destroy_entity")
    /\ UNCHANGED OutsideEcho

\* The user creates a networked entity.
EchoUserCreates ==
    /\ cli_echo.steps < MaxEchoSteps
    /\ cli_echo.next <= MaxEchoEntities
    /\ LET local_entity == cli_echo.next
           x == [cli_echo EXCEPT !.next = @ + 1,
                                 !.valid = @ \cup {local_entity},
                                 !.networked = @ \cup {local_entity}]
       IN  cli_echo' = EchoStep(on_construct_networked_entity(x, {local_entity}),
                               "user_creates")
    /\ UNCHANGED OutsideEcho

\* The user destroys a networked entity that is not waiting in
\* created_entities.
EchoUserDestroys ==
    /\ cli_echo.steps < MaxEchoSteps
    /\ \E local_entity \in cli_echo.networked \ cli_echo.created_entities :
          LET x == on_destroy_networked_entity(cli_echo, {local_entity})
          IN  cli_echo' = EchoStep([x EXCEPT !.valid = @ \ {local_entity},
                                             !.networked = @ \ {local_entity}],
                               "user_destroys")
    /\ UNCHANGED OutsideEcho

\* update_network_client(): process_created_networked_entities() and
\* process_destroyed_networked_entities().
EchoUpdateNetworkClient ==
    /\ cli_echo.steps < MaxEchoSteps
    /\ cli_echo.created_entities \cup cli_echo.destroyed_entities # {}
    /\ cli_echo' =
           EchoStep([cli_echo EXCEPT
                        !.self_owned = @ \cup cli_echo.created_entities,
                        !.sent_create = @ \cup cli_echo.created_entities,
                        !.sent_destroy = @ \cup cli_echo.destroyed_entities,
                        !.created_entities = {},
                        !.destroyed_entities = {}],
                    "update_network_client")
    /\ UNCHANGED OutsideEcho

\* init_network_client(): a client without entities.
InitEcho ==
    /\ WorkerAtConstruction
    /\ now = 0
    /\ ServerAtRest
    /\ RestBut("cli_echo")
    /\ cli_echo = [importing_entities |-> FALSE, next |-> 1, valid |-> {},
                   networked |-> {}, client_entity |-> Null,
                   entity_map |-> {}, created_entities |-> {},
                   destroyed_entities |-> {}, self_owned |-> {},
                   gained |-> {}, lost |-> {}, sent_create |-> {},
                   sent_destroy |-> {}, last |-> "none", steps |-> 0]

NextEcho ==
    \/ EchoClientCreated
    \/ EchoCreateEntity
    \/ EchoEntityResponse
    \/ EchoDestroyEntity
    \/ EchoUserCreates
    \/ EchoUserDestroys
    \/ EchoUpdateNetworkClient

SpecEcho == InitEcho /\ [][NextEcho]_vars

(***************************************************************************)
(* C39 (SpecEcho).  Entities that gain or lose networked_tag while the     *)
(* client is processing a server packet (client_created, create_entity,    *)
(* entity_response, destroy_entity) are never added to created_entities or *)
(* destroyed_entities, so the client never echoes a server-originated      *)
(* creation or destruction back to the server as its own create_entity or  *)
(* destroy_entity, and never assigns itself as their entity_owner.         *)
(***************************************************************************)
C39_NoEchoOfServerEntities ==
    /\ cli_echo.created_entities \cap cli_echo.gained = {}
    /\ cli_echo.destroyed_entities \cap cli_echo.lost = {}
    /\ cli_echo.sent_create \cap cli_echo.gained = {}
    /\ cli_echo.sent_destroy \cap cli_echo.lost = {}
    /\ cli_echo.self_owned \cap cli_echo.gained = {}

\* The server has created an entity and destroyed it, the user has created
\* one and destroyed one of the server's, and the client has sent its lists.
C39_Witness ==
    /\ cli_echo.gained \cap cli_echo.lost # {}
    /\ cli_echo.sent_create # {}
    /\ cli_echo.sent_destroy \cap cli_echo.gained # {}
    /\ cli_echo.self_owned # {}

(***************************************************************************)
(* SpecPresent: the presentation transforms (update_presentation.cpp).     *)
(* Positions, velocities and offsets are integers along one axis; an       *)
(* orientation is a turn about one axis, counted in quarter turns, and the *)
(* product of two orientations the sum of their turns.  Every body has     *)
(* position, orientation, linvel, angvel, present_position,                *)
(* present_orientation and a discontinuity; it may be procedural or not,   *)
(* asleep or not, disabled or not.                                         *)
(***************************************************************************)
MaxPresentBodies == 1   \* the bodies
MaxPresentCalls == 3    \* calls of update_presentation and snap_presentation
MaxPresentAhead == 2    \* time - worker_time, in units of fixed_dt
MaxPresentValue == 1    \* the velocities and the offsets

PresentBodies == 1..MaxPresentBodies
MaxPresentTurns == 4     \* the orientations: quarter turns

\* integrate(orn, vel, dt).
integrate(orn, vel, dt) == (orn + vel * dt) % MaxPresentTurns

Min(a, b) == IF a < b THEN a ELSE b

\* registry.view<position, linvel, present_position, procedural_tag>(
\* exclude<sleeping_tag, disabled_tag>), and the same view of the angular
\* components.
in_velocity_view(body) ==
    body.procedural /\ ~body.sleeping /\ ~body.disabled

\* update_presentation(registry, time), on one body.
update_presentation(body, time, worker_time) ==
    LET dt == Min(time - FixedDt - worker_time, FixedDt)
        pre == IF in_velocity_view(body)
               THEN [body EXCEPT
                        !.present_position = body.position + body.linvel * dt,
                        !.present_orientation =
                            integrate(body.orientation, body.angvel, dt)]
               ELSE body
    IN  [pre EXCEPT
            !.present_position = @ + body.position_offset,
            !.present_orientation = (body.orientation_offset + @) % MaxPresentTurns]

\* snap_presentation(registry), on one body.
snap_presentation(body) ==
    [body EXCEPT !.present_position = body.position,
                 !.present_orientation = body.orientation]

OutsidePresent == <<workerv, now, ownerv, aabbv, queuev, snapv, srv_req,
                    cli_map, cli_extr, cli_dirty, net_graph, wrk_delta,
                    pkt_pools, srv_delay, split_delta, srv_destroy, cli_echo>>

\* update_presentation(registry, time), with !(time < worker_time).
UpdatePresentation ==
    /\ present.calls < MaxPresentCalls
    /\ \E ahead \in 0..MaxPresentAhead :
          present' = [present EXCEPT
                         !.bodies = [b \in PresentBodies |->
                                        update_presentation(
                                            present.bodies[b],
                                            present.worker_time + ahead,
                                            present.worker_time)],
                         !.time = present.worker_time + ahead,
                         !.calls = @ + 1,
                         !.last = "update_presentation"]
    /\ UNCHANGED OutsidePresent

\* snap_presentation(registry).
SnapPresentation ==
    /\ present.calls < MaxPresentCalls
    /\ present' = [present EXCEPT
                      !.bodies = [b \in PresentBodies |->
                                     snap_presentation(present.bodies[b])],
                      !.calls = @ + 1,
                      !.last = "snap_presentation"]
    /\ UNCHANGED OutsidePresent

\* The bodies a registry may hold.
PresentBodyStates ==
    [procedural : BOOLEAN, sleeping : BOOLEAN, disabled : BOOLEAN,
     position : {0}, linvel : 0..MaxPresentValue,
     present_position : {0},
     orientation : {0}, angvel : 0..MaxPresentValue,
     present_orientation : {0},
     position_offset : 0..MaxPresentValue,
     orientation_offset : 0..MaxPresentValue]

\* Bodies whose presentation transforms are their transforms, as
\* snap_presentation leaves them.
InitPresent ==
    /\ WorkerAtConstruction
    /\ now = 0
    /\ ServerAtRest
    /\ RestBut("present")
    /\ \E held \in [PresentBodies -> PresentBodyStates] :
          present = [bodies |-> held, worker_time |-> 0, time |-> 0,
                     calls |-> 0, last |-> "none"]

NextPresent ==
    \/ UpdatePresentation
    \/ SnapPresentation

SpecPresent == InitPresent /\ [][NextPresent]_vars

\* The transform of a body at the time of the last call: extrapolated by its
\* velocity if the body is awake, its own otherwise.
SimulatedTransform(body, time, worker_time) ==
    LET dt == Min(time - FixedDt - worker_time, FixedDt)
        awake == body.procedural /\ ~body.sleeping /\ ~body.disabled
    IN  [position |-> IF awake THEN body.position + body.linvel * dt
                      ELSE body.position,
         orientation |-> IF awake
                         THEN (body.orientation + body.angvel * dt)
                                  % MaxPresentTurns
                         ELSE body.orientation]

(***************************************************************************)
(* C40 (SpecPresent).  After every update_presentation call, the           *)
(* present_position and present_orientation of every body with a           *)
(* discontinuity equal its simulated transform (extrapolated by velocity   *)
(* for awake bodies) offset by exactly one application of                  *)
(* discontinuity.position_offset and orientation_offset, for awake,        *)
(* sleeping and disabled bodies alike and for any number of consecutive    *)
(* calls; position and orientation themselves are never modified.          *)
(***************************************************************************)
C40_PresentationOffsetOnce ==
    [][UpdatePresentation =>
          \A b \in PresentBodies :
             LET body == present'.bodies[b]
                 at == SimulatedTransform(body, present'.time,
                                          present'.worker_time)
             IN  /\ body.present_position =
                        at.position + body.position_offset
                 /\ body.present_orientation =
                        (body.orientation_offset + at.orientation)
                            % MaxPresentTurns
                 /\ body.position = present.bodies[b].position
                 /\ body.orientation = present.bodies[b].orientation]_vars

====
